---- MODULE Spec2Model ----
(***************************************************************************)
(* A model of the AD -> FreeIPA reconciliation engine (ad-sync/ad_sync.py) *)
(* and of sync_user_to_freeipa of azure-sync/azure_freeipa_sync.py.        *)
(* Strings are sequences of one-character strings, so that the code's      *)
(* string operations (split, replace, startswith, int) are computed.       *)
(* Python values are tagged records [t, v]; None is [t |-> "none"].        *)
(***************************************************************************)
EXTENDS Integers, Sequences, FiniteSets, TLC

\* ------------------------------------------------------------------------
\* Python values
\* ------------------------------------------------------------------------
PNone == [t |-> "none", v |-> 0]
PStr(s) == [t |-> "str", v |-> s]
PInt(n) == [t |-> "int", v |-> n]
PBool(b) == [t |-> "bool", v |-> b]
PList(l) == [t |-> "list", v |-> l]
PBytes(b) == [t |-> "bytes", v |-> b]

\* Python truthiness: None, 0, False, "", b"" and [] are falsy.
Truthy(x) ==
    CASE x.t = "none" -> FALSE
      [] x.t = "int" -> x.v # 0
      [] x.t = "bool" -> x.v
      [] OTHER -> x.v # <<>>

\* dict.get(key, default)
DictGet(d, k, default) == IF k \in DOMAIN d THEN d[k] ELSE default

\* the empty dict
EmptyDict == [k \in {} |-> PNone]

\* ------------------------------------------------------------------------
\* String helpers
\* ------------------------------------------------------------------------
RECURSIVE Replace(_, _, _)
\* str.replace(c, r) for a one-character c
Replace(s, c, r) ==
    IF s = <<>> THEN <<>>
    ELSE (IF Head(s) = c THEN r ELSE <<Head(s)>>) \o Replace(Tail(s), c, r)

RECURSIVE SplitFrom(_, _, _)
\* str.split(c): cur is the part being read
SplitFrom(s, c, cur) ==
    IF s = <<>> THEN <<cur>>
    ELSE IF Head(s) = c THEN <<cur>> \o SplitFrom(Tail(s), c, <<>>)
    ELSE SplitFrom(Tail(s), c, Append(cur, Head(s)))

Split(s, c) == SplitFrom(s, c, <<>>)

StartsWith(s, p) == Len(s) >= Len(p) /\ SubSeq(s, 1, Len(p)) = p

Digits == <<"0", "1", "2", "3", "4", "5", "6", "7", "8", "9">>

IsDigit(c) == \E i \in 1..10 : Digits[i] = c

DigitVal(c) == (CHOOSE i \in 1..10 : Digits[i] = c) - 1

RECURSIVE DecimalValue(_, _)
DecimalValue(s, acc) ==
    IF s = <<>> THEN acc ELSE DecimalValue(Tail(s), 10 * acc + DigitVal(Head(s)))

\* int(s) succeeds on a non-empty string of decimal digits (the model's strings
\* hold no sign, blank or underscore); otherwise it raises ValueError.
IntParses(s) == s # <<>> /\ \A i \in 1..Len(s) : IsDigit(s[i])

IntOf(s) == DecimalValue(s, 0)

RECURSIVE IntToStr(_)
\* str(n) for n >= 0
IntToStr(n) ==
    IF n < 10 THEN <<Digits[n + 1]>>
    ELSE IntToStr(n \div 10) \o <<Digits[(n % 10) + 1]>>

\* ord(c) of the characters a str SID may hold (latin-1 encoding)
Ord(c) ==
    CASE c = "S" -> 83
      [] c = "-" -> 45
      [] c = "x" -> 120
      [] IsDigit(c) -> 48 + DigitVal(c)
      [] OTHER -> 63

\* ------------------------------------------------------------------------
\* Identifier mapper: sid_to_uid, sid_to_string
\* ------------------------------------------------------------------------
\* bytes of a str (encode('latin-1')) or the bytes themselves
SidBytes(sid) ==
    IF sid.t = "str" THEN [i \in 1..Len(sid.v) |-> Ord(sid.v[i])] ELSE sid.v

\* the four bytes read with the most significant byte first
UnpackLE32_BigEndian(b, offset) ==
    16777216 * b[offset + 1] + 65536 * b[offset + 2] + 256 * b[offset + 3]
      + b[offset + 4]

\* struct.unpack('<I', b[offset:offset+4]) with a 0-based offset
UnpackLE32(b, offset) ==
    b[offset + 1] + 256 * b[offset + 2] + 65536 * b[offset + 3]
      + 16777216 * b[offset + 4]

\* struct.unpack('>Q', b'\x00\x00' + b[2:8])
Authority(b) ==
    ((((b[3] * 256 + b[4]) * 256 + b[5]) * 256 + b[6]) * 256 + b[7]) * 256 + b[8]

\* every sub-authority of the declared count lies inside the buffer; a short
\* slice makes struct.unpack raise
SubAuthsReadable(b) == 8 + 4 * b[2] <= Len(b)

\* an exception raised inside a try block, before a handler has seen it
PRaise == [t |-> "raise", v |-> 0]

\* a handler that lets the exception through
Caught_Reraise(r) == r

\* lines 97-99 and 131-132: the except clause returns None
Caught(r) == IF r.t = "raise" THEN PNone ELSE r

\* the sum with the base left out
AddBase_IgnoreBase(id_range_base, rid) == rid

\* lines 59 and 93: id_range_base + rid
AddBase(id_range_base, rid) == id_range_base + rid

\* the try block of sid_to_uid (lines 53-95): int() raises on a last part that
\* is no integer, struct.unpack raises on a slice shorter than four bytes
sid_to_uid_try(sid, id_range_base) ==
    IF sid.t = "str" /\ StartsWith(sid.v, <<"S", "-">>) THEN
        LET parts == Split(sid.v, "-") IN
        IF Len(parts) >= 8 THEN
            IF IntParses(parts[Len(parts)])
            THEN PInt(AddBase(id_range_base, IntOf(parts[Len(parts)])))
            ELSE PRaise
        ELSE PNone
    ELSE IF Len(sid.v) < 12 THEN PNone
    ELSE
        LET b == SidBytes(sid)
            sub_auth_count == b[2]
        IN  IF ~SubAuthsReadable(b) THEN PRaise
            ELSE IF sub_auth_count = 0 THEN PNone
            ELSE PInt(AddBase(id_range_base,
                              UnpackLE32(b, 8 + (sub_auth_count - 1) * 4)))

sid_to_uid(sid, id_range_base) ==
    IF ~Truthy(sid) THEN PNone ELSE Caught(sid_to_uid_try(sid, id_range_base))

RECURSIVE SubAuthString(_, _, _)
\* "-{sub_auth}" for sub-authorities i .. count-1
SubAuthString(b, i, count) ==
    IF i >= count THEN <<>>
    ELSE <<"-">> \o IntToStr(UnpackLE32(b, 8 + i * 4)) \o SubAuthString(b, i + 1, count)

\* the try block of sid_to_string (lines 111-130)
sid_to_string_try(sid) ==
    IF Len(sid.v) < 12 THEN PNone
    ELSE
        LET b == SidBytes(sid) IN
        IF ~SubAuthsReadable(b) THEN PRaise
        ELSE PStr(<<"S", "-">> \o IntToStr(b[1]) \o <<"-">> \o IntToStr(Authority(b))
                    \o SubAuthString(b, 0, b[2]))

sid_to_string(sid) ==
    IF ~Truthy(sid) THEN PNone
    ELSE IF sid.t = "str" /\ StartsWith(sid.v, <<"S", "-">>) THEN sid
    ELSE Caught(sid_to_string_try(sid))

\* ------------------------------------------------------------------------
\* Source snapshot: get_ad_users, get_ad_groups
\* An LDAP entry is [dn, attrs]; hasattr(entry, a) is a \in DOMAIN attrs.
\* ------------------------------------------------------------------------
UserAttributes ==
    {"sAMAccountName", "givenName", "sn", "mail", "displayName", "telephoneNumber",
     "title", "department", "userAccountControl", "uidNumber", "gidNumber",
     "loginShell", "unixHomeDirectory", "objectSid", "primaryGroupID"}

GroupAttributes ==
    {"sAMAccountName", "cn", "description", "member", "gidNumber", "objectSid"}

HasSam(entry) ==
    "sAMAccountName" \in DOMAIN entry.attrs /\ Truthy(entry.attrs["sAMAccountName"])

\* uac & 0x0002
AccountDisableBit(uac) == (uac \div 2) % 2 = 1

Missing(attributes, k) == k \notin DOMAIN attributes \/ ~Truthy(attributes[k])

\* the user dict built from one entry
AdUser(entry, id_range_base) ==
    LET uac == IF "userAccountControl" \in DOMAIN entry.attrs
               THEN entry.attrs["userAccountControl"] ELSE PInt(0)
        is_disabled == Truthy(uac) /\ AccountDisableBit(uac.v)
        a0 == [k \in DOMAIN entry.attrs \cap UserAttributes |-> entry.attrs[k]]
        a1 == ("_is_disabled" :> PBool(is_disabled)) @@ a0
        hasSid == ~Missing(a1, "objectSid")
        calculated_uid == IF hasSid THEN sid_to_uid(a1["objectSid"], id_range_base)
                          ELSE PNone
        a2 == IF hasSid /\ Missing(a1, "uidNumber") /\ Truthy(calculated_uid)
              THEN ("uidNumber" :> calculated_uid) @@ ("_calculated_uid" :> PBool(TRUE)) @@ a1
              ELSE a1
        a3 == IF hasSid /\ ~Missing(a2, "primaryGroupID") /\ Missing(a2, "gidNumber")
              THEN ("gidNumber" :> PInt(id_range_base + a2["primaryGroupID"].v))
                     @@ ("_calculated_gid" :> PBool(TRUE)) @@ a2
              ELSE a2
    IN  [dn |-> entry.dn, attributes |-> a3]

RECURSIVE get_ad_users(_, _)
\* entries without a sAMAccountName are dropped
get_ad_users(entries, id_range_base) ==
    IF entries = <<>> THEN <<>>
    ELSE (IF HasSam(Head(entries)) THEN <<AdUser(Head(entries), id_range_base)>> ELSE <<>>)
           \o get_ad_users(Tail(entries), id_range_base)

AdGroup(entry, id_range_base) ==
    LET a0 == [k \in DOMAIN entry.attrs \cap GroupAttributes |-> entry.attrs[k]]
        hasSid == ~Missing(a0, "objectSid")
        calculated_gid == IF hasSid THEN sid_to_uid(a0["objectSid"], id_range_base)
                          ELSE PNone
        a1 == IF hasSid /\ Missing(a0, "gidNumber") /\ Truthy(calculated_gid)
              THEN ("gidNumber" :> calculated_gid) @@ ("_calculated_gid" :> PBool(TRUE)) @@ a0
              ELSE a0
    IN  [dn |-> entry.dn, attributes |-> a1]

RECURSIVE get_ad_groups(_, _)
get_ad_groups(entries, id_range_base) ==
    IF entries = <<>> THEN <<>>
    ELSE (IF HasSam(Head(entries)) THEN <<AdGroup(Head(entries), id_range_base)>> ELSE <<>>)
           \o get_ad_groups(Tail(entries), id_range_base)

\* ------------------------------------------------------------------------
\* Attribute mapper: map_user_attributes
\* The mapping table is a sequence of <<ad_attr, ipa_attr>> pairs (a dict in
\* insertion order).
\* ------------------------------------------------------------------------
\* str(value) as an f-string renders it
ToStr(x) == IF x.t = "int" THEN IntToStr(x.v) ELSE x.v

\* a mapping pair that contributes a list as it is
MappedValue_WholeList(x) == x

\* the value one mapping pair contributes: the first element of a list
MappedValue(x) == IF x.t = "list" THEN (IF x.v # <<>> THEN Head(x.v) ELSE PNone) ELSE x

RECURSIVE MapPairs(_, _, _)
MapPairs(mapping, ad_attrs, ipa_user) ==
    IF mapping = <<>> THEN ipa_user
    ELSE LET ad_attr == Head(mapping)[1]
             ipa_attr == Head(mapping)[2]
             takes == ad_attr \in DOMAIN ad_attrs /\ Truthy(ad_attrs[ad_attr])
                        /\ Truthy(MappedValue(ad_attrs[ad_attr]))
         IN  MapPairs(Tail(mapping), ad_attrs,
                      IF takes THEN (ipa_attr :> MappedValue(ad_attrs[ad_attr])) @@ ipa_user
                      ELSE ipa_user)

\* a mail built whenever a domain is configured and a uid resulted
SynthesizesMail_OverMapped(ipa_user, default_domain) ==
    Truthy(default_domain) /\ "uid" \in DOMAIN ipa_user

\* lines 354-357: the conditions under which the mail is constructed
SynthesizesMail(ipa_user, default_domain) ==
    Missing(ipa_user, "mail") /\ Truthy(default_domain) /\ "uid" \in DOMAIN ipa_user

map_user_attributes(ad_user, mapping, default_domain) ==
    LET ipa_user == MapPairs(mapping, ad_user.attributes, EmptyDict) IN
    IF SynthesizesMail(ipa_user, default_domain)
    THEN ("mail" :> PStr(ToStr(ipa_user["uid"]) \o <<"@">> \o default_domain.v)) @@ ipa_user
    ELSE ipa_user

\* ------------------------------------------------------------------------
\* Scope filter: should_sync_user, should_sync_group
\* ------------------------------------------------------------------------
\* a user filter that reads the inclusion list only
should_sync_user_IncludeOnly(username, cfg) ==
    cfg.user_include_filter = {} \/ username \in cfg.user_include_filter

\* lines 362-371
should_sync_user(username, cfg) ==
    IF cfg.user_include_filter # {} /\ username \notin cfg.user_include_filter THEN FALSE
    ELSE IF cfg.user_exclude_filter # {} /\ username \in cfg.user_exclude_filter THEN FALSE
    ELSE TRUE

\* a group filter in which the inclusion list wins over the exclusion list
should_sync_group_IncludeWins(groupname, cfg) ==
    \/ groupname \in cfg.group_include_filter
    \/ cfg.group_include_filter = {} /\ groupname \notin cfg.group_exclude_filter

\* lines 373-382
should_sync_group(groupname, cfg) ==
    IF cfg.group_include_filter # {} /\ groupname \notin cfg.group_include_filter THEN FALSE
    ELSE IF cfg.group_exclude_filter # {} /\ groupname \in cfg.group_exclude_filter THEN FALSE
    ELSE TRUE

\* groupname.replace(' ', '-').replace('(', '').replace(')', '')
SanitizeGroupName(groupname) ==
    Replace(Replace(Replace(groupname, " ", <<"-">>), "(", <<>>), ")", <<>>)

\* ------------------------------------------------------------------------
\* The run: state
\* ------------------------------------------------------------------------
VARIABLES
    config,     \* self.config: the options the engine reads
    adUsers,    \* source directory: the user entries a search returns
    adGroups,   \* source directory: the group entries a search returns
    adObjects,  \* source directory: DN -> entry, for the member lookups
    ipaUsers,   \* target: login -> [nsaccountlock, attrs]
    ipaGroups,  \* target: group name -> [member_user, member_group, attrs]
    ipaRange,   \* target: the ID range AD_SYNC_RANGE exists
    ad_conn,    \* self.ad_conn: "None", "bound" or "unbound"
    stats,      \* self.stats
    pc,         \* where sync() stands; "idle" outside a call
    args,       \* the arguments of the running sync(): dry_run, force_users, force_groups
    todo,       \* the records the running loop has still to process
    calls,      \* the target calls of the current run, in order
    decisions,  \* the decisions of the current run, in order
    faults,     \* injected failures so far (bounded by MaxFaults)
    runs,       \* completed calls of sync()
    result,     \* what the last sync() returned: "none", "True", "False", "raised"
    cur,        \* the current run: how it connected, whether a failure was injected,
                \* the phases whose listing of the source failed, and the target, the
                \* counters, the source groups and the failures so far when it started
    hist,       \* one record per completed run, in order
    srcSame,    \* the source has not changed since the first run
    probe,      \* one input of a pure function and the values computed from it
    reused      \* the caller keeps one engine object and calls sync() on it again,
                \* instead of constructing one per run as main() does

vars == <<config, adUsers, adGroups, adObjects, ipaUsers, ipaGroups, ipaRange, ad_conn,
          stats, pc, args, todo, calls, decisions, faults, runs, result, cur, hist, srcSame,
          probe, reused>>

\* bounds of the model
MaxFaults == 1
MaxRuns == 2

ZeroStats ==
    [users_created |-> 0, users_updated |-> 0, users_skipped |-> 0, users_disabled |-> 0,
     users_enabled |-> 0, groups_created |-> 0, groups_updated |-> 0,
     memberships_added |-> 0]

\* a counter raised by two
Inc_Twice(st, k) == [st EXCEPT ![k] = @ + 2]

\* self.stats[k] += 1
Inc(st, k) == [st EXCEPT ![k] = @ + 1]

\* a target call as the log keeps it; res is "ok", "notfound" (a lookup) or "error"
Call(op, key, member, params, res) ==
    [op |-> op, key |-> key, member |-> member, params |-> params, res |-> res]

\* the calls cs, marked with the phase of sync() that issued them
InPhase(cs, phase) ==
    [i \in 1..Len(cs) |->
        [op |-> cs[i].op, key |-> cs[i].key, member |-> cs[i].member,
         params |-> cs[i].params, res |-> cs[i].res, phase |-> phase]]

Decision(kind, key, member) == [kind |-> kind, key |-> key, member |-> member]

MutatingOps ==
    {"user_add", "user_mod", "user_enable", "user_disable", "group_add", "group_mod",
     "group_add_member", "idrange_add"}

Restrict(d, K) == [k \in DOMAIN d \cap K |-> d[k]]

\* the attributes user_mod is given (lines 410-428) and user_add's optional
\* parameters (lines 470-484); the o_ prefix of the keyword names is dropped
UpdateKeys ==
    {"givenname", "sn", "mail", "telephonenumber", "title", "uidnumber", "gidnumber",
     "loginshell", "homedirectory"}

CreateOptionalKeys ==
    {"mail", "telephonenumber", "title", "uidnumber", "gidnumber", "loginshell",
     "homedirectory"}

\* ------------------------------------------------------------------------
\* sync_users: one iteration of the loop over the source users
\* f is the injected failure: "none", "show", "mod", "status" or "add"
\* ------------------------------------------------------------------------
\* fits: the injected failure f is "none" or hit a call this iteration makes
UserOut(u, st, c, d, raised, fits) ==
    [ipaUsers |-> u, stats |-> st, calls |-> c, decisions |-> d, raised |-> raised,
     fits |-> fits]

\* the keyword arguments of user_mod (lines 410-428)
UpdateParams(ipa_user) == Restrict(ipa_user, UpdateKeys)

\* a reconciliation that looks at the source flag only
StatusOp_IgnoreTarget(is_disabled, ipa_is_disabled) ==
    IF is_disabled THEN "user_disable" ELSE "user_enable"

\* a reconciliation that locks entries and never unlocks one
StatusOp_NeverEnables(is_disabled, ipa_is_disabled) ==
    IF is_disabled /\ ~ipa_is_disabled THEN "user_disable" ELSE "none"

\* the status call of the found branch (lines 436-451), "none" when the flags agree
StatusOp(is_disabled, ipa_is_disabled) ==
    IF is_disabled /\ ~ipa_is_disabled THEN "user_disable"
    ELSE IF ~is_disabled /\ ipa_is_disabled THEN "user_enable"
    ELSE "none"

\* the found branch of a live run (lines 408-453)
UserFoundLive(username, ipa_user, is_disabled, force, f, show) ==
    LET existing == ipaUsers[username]
        params == UpdateParams(ipa_user)
        doMod == force /\ DOMAIN params # {}
        modFails == doMod /\ f = "mod"
        modCall == IF doMod
                   THEN <<Call("user_mod", username, <<>>, params,
                               IF modFails THEN "error" ELSE "ok")>>
                   ELSE <<>>
        modDec == IF doMod THEN <<Decision("UpdateAttributes", username, <<>>)>> ELSE <<>>
        u1 == IF doMod /\ ~modFails
              THEN [ipaUsers EXCEPT ![username].attrs = params @@ @]
              ELSE ipaUsers
        ipa_is_disabled == existing.nsaccountlock
        statusOp == StatusOp(is_disabled, ipa_is_disabled)
        statusFails == statusOp # "none" /\ f = "status"
        statusCall == IF statusOp = "none" THEN <<>>
                      ELSE <<Call(statusOp, username, <<>>, EmptyDict,
                                  IF statusFails THEN "error" ELSE "ok")>>
        statusDec == <<Decision(CASE statusOp = "user_disable" -> "Disable"
                                  [] statusOp = "user_enable" -> "Enable"
                                  [] OTHER -> "NoOp", username, <<>>)>>
        u2 == IF statusOp = "none" \/ statusFails THEN u1
              ELSE [u1 EXCEPT ![username].nsaccountlock = (statusOp = "user_disable")]
        st1 == CASE statusOp = "user_disable" -> Inc(stats, "users_disabled")
                 [] statusOp = "user_enable" -> Inc(stats, "users_enabled")
                 [] OTHER -> stats
    IN  IF modFails
        THEN UserOut(ipaUsers, stats, show \o modCall, modDec, FALSE, TRUE)
        ELSE IF statusFails
        THEN UserOut(u1, stats, show \o modCall \o statusCall, modDec \o statusDec,
                     FALSE, TRUE)
        ELSE UserOut(u2, Inc(st1, "users_updated"), show \o modCall \o statusCall,
                     modDec \o statusDec, FALSE, f = "none")

\* arguments of user_add whose common name falls back to the login name
CreateParams_LoginForAll(ipa_user, username) ==
    LET login == PStr(username) IN
    ("uid" :> DictGet(ipa_user, "uid", login))
      @@ ("givenname" :> DictGet(ipa_user, "givenname", login))
      @@ ("sn" :> DictGet(ipa_user, "sn", login))
      @@ ("cn" :> DictGet(ipa_user, "cn", login))
      @@ Restrict(ipa_user, CreateOptionalKeys)

\* the arguments of user_add (lines 464-486)
CreateParams(ipa_user, username) ==
    LET uid == DictGet(ipa_user, "uid", PStr(username))
        givenname == DictGet(ipa_user, "givenname", PStr(username))
        sn == DictGet(ipa_user, "sn", PStr(username))
        cn == DictGet(ipa_user, "cn", PStr(ToStr(givenname) \o <<" ">> \o ToStr(sn)))
    IN  ("uid" :> uid) @@ ("givenname" :> givenname) @@ ("sn" :> sn) @@ ("cn" :> cn)
          @@ Restrict(ipa_user, CreateOptionalKeys)

\* a creation that never sets the status of the new entry
NeedsDisable_Never(is_disabled) == FALSE

\* line 489: the new entry is disabled when the source account is
NeedsDisable(is_disabled) == is_disabled

\* the not-found branch of a live run (lines 463-495): an exception raised here is
\* raised inside the "except NotFound" handler, which no clause of the same try
\* statement catches
UserCreateLive(username, ipa_user, is_disabled, f, show) ==
    LET params == CreateParams(ipa_user, username)
        key == ToStr(params["uid"])
        addFails == f = "add" \/ key \in DOMAIN ipaUsers
        addCall == <<Call("user_add", key, <<>>, params,
                          IF addFails THEN "error" ELSE "ok")>>
        u1 == (key :> [nsaccountlock |-> FALSE, attrs |-> params]) @@ ipaUsers
        disFails == f = "status" \/ username \notin DOMAIN u1
        disCall == <<Call("user_disable", username, <<>>, EmptyDict,
                          IF disFails THEN "error" ELSE "ok")>>
        create == <<Decision("Create", username, <<>>)>>
        disable == <<Decision("Disable", username, <<>>)>>
    IN  IF addFails
        THEN UserOut(ipaUsers, stats, show \o addCall, create, TRUE, f \in {"none", "add"})
        ELSE IF ~NeedsDisable(is_disabled)
        THEN UserOut(u1, Inc(stats, "users_created"), show \o addCall, create, FALSE,
                     f = "none")
        ELSE IF disFails
        THEN UserOut(u1, stats, show \o addCall \o disCall, create \o disable, TRUE,
                     f \in {"none", "status"})
        ELSE UserOut([u1 EXCEPT ![username].nsaccountlock = TRUE],
                     Inc(stats, "users_created"), show \o addCall \o disCall,
                     create \o disable, FALSE, f = "none")

\* the body of the loop for one source user (lines 390-498)
UserOutcome(ad_user, dry_run, force, f) ==
    LET name == DictGet(ad_user.attributes, "sAMAccountName", PNone)
        username == name.v
        ipa_user == map_user_attributes(ad_user, config.user_attribute_mapping,
                                        config.default_email_domain)
        is_disabled == DictGet(ad_user.attributes, "_is_disabled", PBool(FALSE)).v
        exists == username \in DOMAIN ipaUsers
        show == <<Call("user_show", username, <<>>, EmptyDict,
                       IF f = "show" THEN "error"
                       ELSE IF exists THEN "ok" ELSE "notfound")>>
    IN  IF ~Truthy(name) \/ ~should_sync_user(username, config)
        THEN UserOut(ipaUsers, Inc(stats, "users_skipped"), <<>>,
                     <<Decision("Skip", IF Truthy(name) THEN username ELSE <<>>, <<>>)>>,
                     FALSE, f = "none")
        ELSE IF f = "show"
        THEN UserOut(ipaUsers, stats, show, <<>>, FALSE, TRUE)
        ELSE IF exists THEN
            IF dry_run
            THEN UserOut(ipaUsers, Inc(stats, "users_updated"), show,
                         <<Decision("UpdateAttributes", username, <<>>)>>, FALSE, f = "none")
            ELSE UserFoundLive(username, ipa_user, is_disabled, force, f, show)
        ELSE
            IF dry_run
            THEN UserOut(ipaUsers, Inc(stats, "users_created"), show,
                         <<Decision("Create", username, <<>>)>>
                           \o (IF is_disabled
                               THEN <<Decision("Disable", username, <<>>)>> ELSE <<>>),
                         FALSE, f = "none")
            ELSE UserCreateLive(username, ipa_user, is_disabled, f, show)

\* ------------------------------------------------------------------------
\* sync_groups: one iteration of the loop over the source groups
\* f is the injected failure: "none", "show" or "add"
\* ------------------------------------------------------------------------
GroupOut(g, st, c, d, raised, fits) ==
    [ipaGroups |-> g, stats |-> st, calls |-> c, decisions |-> d, raised |-> raised,
     fits |-> fits]

\* description = attrs.get('description', ''); a list gives its first element
GroupDescription(attributes) ==
    LET description == DictGet(attributes, "description", PStr(<<>>)) IN
    IF description.t = "list"
    THEN (IF description.v # <<>> THEN Head(description.v) ELSE PStr(<<>>))
    ELSE description

\* the parameters of group_add (lines 539-548)
GroupAddParams(attributes) ==
    (IF Truthy(GroupDescription(attributes))
     THEN ("description" :> GroupDescription(attributes)) ELSE EmptyDict)
    @@ (IF "gidNumber" \in DOMAIN attributes
        THEN ("gidnumber" :> attributes["gidNumber"]) ELSE EmptyDict)

\* a group phase that counts a group it found as created
CountFound_AsCreated(st) == Inc(st, "groups_created")

\* lines 524 and 532: a group the target holds is counted as updated
CountFound(st) == Inc(st, "groups_updated")

\* the body of the loop for one source group (lines 506-556)
GroupOutcome(ad_group, dry_run, force, f) ==
    LET name == DictGet(ad_group.attributes, "sAMAccountName", PNone)
        groupname == SanitizeGroupName(name.v)
        exists == groupname \in DOMAIN ipaGroups
        show == <<Call("group_show", groupname, <<>>, EmptyDict,
                       IF f = "show" THEN "error"
                       ELSE IF exists THEN "ok" ELSE "notfound")>>
        params == GroupAddParams(ad_group.attributes)
        addCall == <<Call("group_add", groupname, <<>>, params,
                          IF f = "add" THEN "error" ELSE "ok")>>
        g1 == (groupname :> [member_user |-> {}, member_group |-> {}, attrs |-> params])
                @@ ipaGroups
    IN  IF ~Truthy(name) \/ ~should_sync_group(name.v, config)
        THEN GroupOut(ipaGroups, stats, <<>>, <<>>, FALSE, f = "none")
        ELSE IF f = "show"
        THEN GroupOut(ipaGroups, stats, show, <<>>, FALSE, TRUE)
        ELSE IF exists THEN
            IF ~force
            THEN GroupOut(ipaGroups, CountFound(stats), show,
                          <<Decision("Skip", groupname, <<>>)>>, FALSE, f = "none")
            ELSE GroupOut(ipaGroups, CountFound(stats), show,
                          <<Decision("UpdateAttributes", groupname, <<>>)>>, FALSE,
                          f = "none")
        ELSE
            IF dry_run
            THEN GroupOut(ipaGroups, Inc(stats, "groups_created"), show,
                          <<Decision("Create", groupname, <<>>)>>, FALSE, f = "none")
            ELSE IF f = "add"
            THEN GroupOut(ipaGroups, stats, show \o addCall,
                          <<Decision("Create", groupname, <<>>)>>, TRUE, TRUE)
            ELSE GroupOut(g1, Inc(stats, "groups_created"), show \o addCall,
                          <<Decision("Create", groupname, <<>>)>>, FALSE, f = "none")

\* ------------------------------------------------------------------------
\* sync_memberships: one iteration of the loop over the source groups
\* F is the set of injected failures, each [site, key]: site "resolve" (the
\* source lookup of member DN key), "show" (group_show), "add_user" or
\* "add_group" (group_add_member for source name key)
\* ------------------------------------------------------------------------
\* a membership phase that looks the group up under its source name
MembershipGroupName_Raw(groupname) == groupname

\* lines 568-572: the name the membership phase uses for the target group
MembershipGroupName(groupname) == SanitizeGroupName(groupname)

Fault(site, key) == [site |-> site, key |-> key]

\* str.lower() on the characters object class names and error messages hold
LowerChar(c) ==
    CASE c = "G" -> "g"
      [] c = "U" -> "u"
      [] c = "P" -> "p"
      [] c = "N" -> "n"
      [] c = "F" -> "f"
      [] OTHER -> c

Lower(str) == [i \in 1..Len(str) |-> LowerChar(str[i])]

\* members = attrs.get('member', []); a single value is wrapped in a list
MemberList(attributes) ==
    LET members == DictGet(attributes, "member", PList(<<>>)) IN
    IF members.t = "list" THEN members.v
    ELSE IF Truthy(members) THEN <<members>> ELSE <<>>

\* the lower-cased object classes of a directory entry
ObjClasses(entry) ==
    LET v == entry.attrs["objectClass"] IN
    IF v.t = "list" THEN {Lower(v.v[i].v) : i \in 1..Len(v.v)} ELSE {Lower(v.v)}

\* how one member reference resolves (lines 584-613): "user", "group" or "skip"
\* (no entry, no sAMAccountName, or an exception in the lookup)
ResolveKind(member_dn, F) ==
    IF Fault("resolve", member_dn.v) \in F THEN "skip"
    ELSE IF member_dn.v \notin DOMAIN adObjects THEN "skip"
    ELSE LET entry == adObjects[member_dn.v] IN
         IF ~HasSam(entry) THEN "skip"
         ELSE IF "objectClass" \notin DOMAIN entry.attrs THEN "skip"
         ELSE IF <<"g", "r", "o", "u", "p">> \in ObjClasses(entry) THEN "group"
         ELSE "user"

\* a resolution that stops at the first reference it cannot resolve
ResolvedNames_UntilUnresolved(members, F, kind) ==
    LET stops == {j \in 1..Len(members) : ResolveKind(members[j], F) = "skip"}
        last == IF stops = {} THEN Len(members)
                ELSE (CHOOSE j \in stops : \A n \in stops : j <= n) - 1
    IN  {adObjects[members[i].v].attrs["sAMAccountName"].v :
            i \in {j \in 1..last : ResolveKind(members[j], F) = kind}}

\* lines 582-613: the names of the references that resolve to the kind
ResolvedNames(members, F, kind) ==
    {adObjects[members[i].v].attrs["sAMAccountName"].v :
        i \in {j \in 1..Len(members) : ResolveKind(members[j], F) = kind}}

MemberOut(g, st, c, d) == [ipaGroups |-> g, stats |-> st, calls |-> c, decisions |-> d]

\* a member call that sets the member list instead of extending it
AddUserMember_Replace(groups, groupname, username) ==
    [groups EXCEPT ![groupname].member_user = {username}]

\* group_add_member on the target: the member is added when it names an entry of
\* the target; a completed call raises nothing either way
AddUserMember(groups, groupname, username) ==
    IF username \in DOMAIN ipaUsers
    THEN [groups EXCEPT ![groupname].member_user = @ \cup {username}]
    ELSE groups

AddGroupMember(groups, groupname, group_to_add) ==
    IF group_to_add \in DOMAIN groups
    THEN [groups EXCEPT ![groupname].member_group = @ \cup {group_to_add}]
    ELSE groups

\* a failing member call that ends the handling of the whole group
RemainingAfter_None(rest, failed) == IF failed THEN <<>> ELSE rest

\* lines 630-631 and 644-645: the except clause of a member call ends the
\* handling of that member only; the members that remain are still handled
RemainingAfter(rest, failed) == rest

RECURSIVE AddUsers(_, _, _, _, _)
\* the loop over ad_usernames - ipa_user_members (lines 622-631), in the order seq
AddUsers(seq, groupname, dry_run, F, acc) ==
    IF seq = <<>> THEN acc
    ELSE LET username == Head(seq)
             fails == Fault("add_user", username) \in F
             call == Call("group_add_member", groupname, username,
                          ("o_user" :> PStr(username)),
                          IF fails THEN "error" ELSE "ok")
             dec == Decision("AddMember", groupname, username)
         IN  AddUsers(RemainingAfter(Tail(seq), ~dry_run /\ fails), groupname, dry_run, F,
               IF dry_run
               THEN MemberOut(acc.ipaGroups, acc.stats, acc.calls,
                              Append(acc.decisions, dec))
               ELSE IF fails
               THEN MemberOut(acc.ipaGroups, acc.stats, Append(acc.calls, call),
                              Append(acc.decisions, dec))
               ELSE MemberOut(AddUserMember(acc.ipaGroups, groupname, username),
                              Inc(acc.stats, "memberships_added"),
                              Append(acc.calls, call), Append(acc.decisions, dec)))

RECURSIVE AddGroups(_, _, _, _, _)
\* the loop over ad_groupnames - ipa_group_members (lines 634-645), in the order seq
AddGroups(seq, groupname, dry_run, F, acc) ==
    IF seq = <<>> THEN acc
    ELSE LET member_groupname == Head(seq)
             group_to_add == SanitizeGroupName(member_groupname)
             fails == Fault("add_group", member_groupname) \in F
             call == Call("group_add_member", groupname, group_to_add,
                          ("o_group" :> PStr(group_to_add)),
                          IF fails THEN "error" ELSE "ok")
         IN  AddGroups(RemainingAfter(Tail(seq), ~dry_run /\ fails), groupname, dry_run, F,
               IF dry_run
               THEN MemberOut(acc.ipaGroups, acc.stats, acc.calls,
                              Append(acc.decisions,
                                     Decision("AddMember", groupname, member_groupname)))
               ELSE IF fails
               THEN MemberOut(acc.ipaGroups, acc.stats, Append(acc.calls, call),
                              Append(acc.decisions,
                                     Decision("AddMember", groupname, member_groupname)))
               ELSE MemberOut(AddGroupMember(acc.ipaGroups, groupname, group_to_add),
                              Inc(acc.stats, "memberships_added"),
                              Append(acc.calls, call),
                              Append(acc.decisions,
                                     Decision("AddMember", groupname, member_groupname))))

\* the sequences that list each element of the set S once
Orders(S) ==
    {q \in [1..Cardinality(S) -> S] : \A i, j \in 1..Cardinality(S) : q[i] = q[j] => i = j}

\* a difference that forgets the members the target group has
ToAddUsers_All(ad_group, F) ==
    ResolvedNames(MemberList(ad_group.attributes), F, "user")

\* the names left to add to the target group
ToAddUsers(ad_group, F) ==
    ResolvedNames(MemberList(ad_group.attributes), F, "user")
      \ ipaGroups[MembershipGroupName(
                     ad_group.attributes["sAMAccountName"].v)].member_user

ToAddGroups(ad_group, F) ==
    ResolvedNames(MemberList(ad_group.attributes), F, "group")
      \ ipaGroups[MembershipGroupName(
                     ad_group.attributes["sAMAccountName"].v)].member_group

\* the failures a membership iteration can take: lookups of its member DNs, the
\* group_show, and the adds it issues
MemberSites(ad_group) ==
    LET members == MemberList(ad_group.attributes)
        R == {Fault("resolve", members[i].v) : i \in 1..Len(members)}
        names == ResolvedNames(members, {}, "user") \cup ResolvedNames(members, {}, "group")
    IN  R \cup {Fault("show", <<>>)}
          \cup {Fault("add_user", n) : n \in names} \cup {Fault("add_group", n) : n \in names}

\* the body of the loop for one source group (lines 564-648); ou and og are the
\* orders in which the two set differences are iterated
MemberOutcome(ad_group, dry_run, F, ou, og) ==
    LET name == DictGet(ad_group.attributes, "sAMAccountName", PNone)
        groupname == MembershipGroupName(name.v)
        exists == groupname \in DOMAIN ipaGroups
        showFails == Fault("show", <<>>) \in F
        show == <<Call("group_show", groupname, <<>>, EmptyDict,
                       IF showFails THEN "error"
                       ELSE IF exists THEN "ok" ELSE "notfound")>>
        acc0 == MemberOut(ipaGroups, stats, show, <<>>)
        users == AddUsers(ou, groupname, dry_run, F, acc0)
        userFailed == \E i \in 1..Len(users.calls) : users.calls[i].res = "error"
    IN  IF ~Truthy(name) \/ ~should_sync_group(name.v, config)
        THEN MemberOut(ipaGroups, stats, <<>>, <<>>)
        ELSE IF showFails \/ ~exists THEN acc0
        ELSE AddGroups(RemainingAfter(og, userFailed), groupname, dry_run, F, users)

\* F holds only failures of calls the iteration makes
MemberFits(ad_group, dry_run, F) ==
    LET name == DictGet(ad_group.attributes, "sAMAccountName", PNone)
        groupname == MembershipGroupName(name.v)
        R == {x \in F : x.site = "resolve"}
    IN  IF ~Truthy(name) \/ ~should_sync_group(name.v, config) THEN F = {}
        ELSE IF Fault("show", <<>>) \in F THEN F = R \cup {Fault("show", <<>>)}
        ELSE IF groupname \notin DOMAIN ipaGroups \/ dry_run THEN F = R
        ELSE F \ R \subseteq ({Fault("add_user", n) : n \in ToAddUsers(ad_group, F)}
                               \cup {Fault("add_group", n) : n \in ToAddGroups(ad_group, F)})

\* ------------------------------------------------------------------------
\* The directories and configurations the runs are checked on
\* ------------------------------------------------------------------------
Alice == <<"a">>
Bob == <<"b">>
Carol == <<"c">>
DevOps == <<"d", " ", "o">>
Admins == <<"(", "x", ")">>

DnAlice == <<"=", "a">>
DnBob == <<"=", "b">>
DnDevOps == <<"=", "d">>
DnAdmins == <<"=", "x">>
DnGhost == <<"=", "?">>
DnContact == <<"=", "k">>

\* S-1-5-21-1-2-3-7
TextSid == <<"S", "-", "1", "-", "5", "-", "2", "1", "-", "1", "-", "2", "-", "3", "-", "7">>

\* revision 1, two sub-authorities (21, 9), authority 5
BinarySid == <<1, 2, 0, 0, 0, 0, 0, 5, 21, 0, 0, 0, 9, 0, 0, 0>>

\* userAccountControl of a normal account (512) and of a disabled one (512 + 2)
AccountControls == {512, 514}

AliceEntry(uac) ==
    [dn |-> DnAlice,
     attrs |-> [sAMAccountName |-> PStr(Alice), givenName |-> PStr(<<"A">>),
                mail |-> PList(<<PStr(<<"m">>), PStr(<<"n">>)>>),
                title |-> PStr(<<>>), displayName |-> PStr(<<"A", "l">>),
                department |-> PStr(<<"D">>),
                userAccountControl |-> PInt(uac), objectSid |-> PStr(TextSid)]]

BobEntry(uac) ==
    [dn |-> DnBob,
     attrs |-> [sAMAccountName |-> PStr(Bob), userAccountControl |-> PInt(uac),
                uidNumber |-> PInt(5), objectSid |-> PBytes(BinarySid)]]

\* an entry without a login name
ContactEntry == [dn |-> DnContact, attrs |-> [mail |-> PStr(<<"k">>)]]

UserSnapshots ==
    {<<AliceEntry(ua), BobEntry(512), ContactEntry>> : ua \in AccountControls}

DevOpsEntry(members) ==
    [dn |-> DnDevOps,
     attrs |-> [sAMAccountName |-> PStr(DevOps),
                description |-> PList(<<PStr(<<"D">>)>>),
                member |-> PList(members), objectSid |-> PBytes(BinarySid)]]

AdminsEntry ==
    [dn |-> DnAdmins,
     attrs |-> [sAMAccountName |-> PStr(Admins), member |-> PStr(DnBob)]]

GroupSnapshots ==
    {<<DevOpsEntry(<<PStr(DnAlice), PStr(DnGhost), PStr(DnContact), PStr(DnAdmins)>>),
       AdminsEntry>>}

DirectoryObjects ==
    (DnAlice :> [dn |-> DnAlice,
                 attrs |-> [sAMAccountName |-> PStr(Alice),
                            objectClass |-> PList(<<PStr(<<"t", "o", "p">>),
                                                    PStr(<<"u", "s", "e", "r">>)>>)]])
    @@ (DnBob :> [dn |-> DnBob,
                  attrs |-> [sAMAccountName |-> PStr(Bob),
                             objectClass |-> PStr(<<"U", "s", "e", "r">>)]])
    @@ (DnAdmins :> [dn |-> DnAdmins,
                     attrs |-> [sAMAccountName |-> PStr(Admins),
                                objectClass |-> PList(<<PStr(<<"t", "o", "p">>),
                                                        PStr(<<"G", "r", "o", "u", "p">>)>>)]])
    @@ (DnContact :> ContactEntry)

TargetUser(locked) == [nsaccountlock |-> locked, attrs |-> ("sn" :> PStr(<<"O">>))]

TargetGroup(users, groups) ==
    [member_user |-> users, member_group |-> groups, attrs |-> EmptyDict]

NoGroups == [k \in {} |-> TargetGroup({}, {})]

\* the target before the first run: users, groups, and whether the ID range exists
TargetStates ==
    {[users |-> EmptyDict, groups |-> NoGroups, range |-> FALSE],
     [users |-> (Alice :> TargetUser(FALSE)),
      groups |-> (<<"d", "-", "o">> :> TargetGroup({Carol}, {})), range |-> TRUE],
     [users |-> (Alice :> TargetUser(TRUE)) @@ (Bob :> TargetUser(FALSE))
                  @@ (Carol :> TargetUser(FALSE)),
      groups |-> (<<"d", "-", "o">> :> TargetGroup({Alice}, {<<"x">>}))
                   @@ (<<"x">> :> TargetGroup({}, {})),
      range |-> TRUE],
     [users |-> (Bob :> TargetUser(TRUE)), groups |-> NoGroups, range |-> FALSE]}

StandardMapping ==
    <<<<"sAMAccountName", "uid">>, <<"givenName", "givenname">>, <<"sn", "sn">>,
      <<"mail", "mail">>, <<"displayName", "cn">>, <<"title", "title">>,
      <<"department", "departmentnumber">>, <<"uidNumber", "uidnumber">>,
      <<"gidNumber", "gidnumber">>>>

NameOnlyMapping == <<<<"givenName", "givenname">>, <<"displayName", "displayname">>>>

DefaultIdRangeBase == 200000

BaseConfig ==
    [id_range_base |-> DefaultIdRangeBase,
     user_attribute_mapping |-> StandardMapping,
     default_email_domain |-> PNone,
     user_include_filter |-> {}, user_exclude_filter |-> {},
     group_include_filter |-> {}, group_exclude_filter |-> {},
     sync_users |-> TRUE, sync_groups |-> TRUE, sync_group_memberships |-> TRUE]

Configs ==
    {BaseConfig,
     [BaseConfig EXCEPT !.user_exclude_filter = {Alice},
                        !.user_include_filter = {Alice, Bob},
                        !.default_email_domain = PStr(<<"e", "x">>)],
     [BaseConfig EXCEPT !.user_attribute_mapping = NameOnlyMapping,
                        !.group_exclude_filter = {Admins}],
     [BaseConfig EXCEPT !.sync_groups = FALSE],
     [BaseConfig EXCEPT !.sync_users = FALSE, !.sync_group_memberships = FALSE]}

\* ------------------------------------------------------------------------
\* azure-sync/azure_freeipa_sync.py: sync_user_to_freeipa
\* ------------------------------------------------------------------------
\* self.stats of AzureFreeIPASync.__init__ (lines 68-77), the counters only
AzureZeroStats ==
    [users_created |-> 0, users_updated |-> 0, users_errors |-> 0,
     groups_created |-> 0, groups_updated |-> 0, groups_errors |-> 0]

\* sub in s
Contains(s, sub) ==
    \E i \in 0..(Len(s) - Len(sub)) : SubSeq(s, i + 1, i + Len(sub)) = sub

\* an exception: its class and str(e)
Exc(type, msg) == [type |-> type, msg |-> msg]

\* what user_show does: it returns the entry, or raises the target's NotFound
\* ("c: user not found"), an authorisation error ("401 Unauthorized") or the
\* HTTP error of a wrong server path ("404 Not Found")
UserNotFound == Exc("NotFound", <<"c", ":", " ", "u", "s", "e", "r", " ", "n", "o", "t", " ", "f", "o", "u", "n", "d">>)
Unauthorized == Exc("Unauthorized", <<"4", "0", "1", " ", "U", "n", "a", "u", "t", "h", "o", "r", "i", "z", "e", "d">>)
HttpNotFound == Exc("HTTPError", <<"4", "0", "4", " ", "N", "o", "t", " ", "F", "o", "u", "n", "d">>)

LookupOutcomes ==
    {[found |-> TRUE, exc |-> Exc("none", <<>>)]}
    \cup {[found |-> FALSE, exc |-> e] : e \in {UserNotFound, Unauthorized, HttpNotFound}}

\* line 336: "not found" in str(e).lower()
MeansNotFound(e) == Contains(Lower(e.msg), <<"n", "o", "t", " ", "f", "o", "u", "n", "d">>)

\* lines 297-303 and 325: the uid is the part of userPrincipalName before the
\* first @; with no userPrincipalName there is no uid and line 315 raises
AzureUid(upn) == IF upn = <<>> THEN PRaise ELSE PStr(Split(upn, "@")[1])

AzureCall(op, key, what, res) == [op |-> op, key |-> key, what |-> what, res |-> res]

AzureOut(cs, st, ret) == [calls |-> cs, stats |-> st, ret |-> ret]

\* sync_user_to_freeipa (lines 319-396) for the user with userPrincipalName
\* upn; lookup is what user_show does, and fails holds the later calls that
\* raise: "add", "password", "expiration"
sync_user_to_freeipa(upn, lookup, fails, st) ==
    LET uid == AzureUid(upn)
        show == AzureCall("user_show", uid.v, "none",
                          IF lookup.found THEN "ok" ELSE "error")
        add == AzureCall("user_add", uid.v, "attributes",
                         IF "add" \in fails THEN "error" ELSE "ok")
        pwd == AzureCall("user_mod", uid.v, "userpassword",
                         IF "password" \in fails THEN "error" ELSE "ok")
        expiry == AzureCall("user_mod", uid.v, "krbpasswordexpiration",
                            IF "expiration" \in fails THEN "error" ELSE "ok")
    IN  IF uid = PRaise THEN AzureOut(<<>>, Inc(st, "users_errors"), FALSE)
        ELSE IF ~Truthy(uid) THEN AzureOut(<<>>, st, FALSE)
        ELSE IF lookup.found THEN AzureOut(<<show>>, st, TRUE)
        ELSE IF ~MeansNotFound(lookup.exc) THEN AzureOut(<<show>>, st, FALSE)
        ELSE IF "add" \in fails
        THEN AzureOut(<<show, add>>, Inc(st, "users_errors"), FALSE)
        ELSE AzureOut(<<show, add, pwd, expiry>>, Inc(st, "users_created"), TRUE)

ArgSets == [dry_run : BOOLEAN, force_users : BOOLEAN, force_groups : BOOLEAN]

\* no input is under evaluation
NoProbe ==
    [kind |-> "none", form |-> "none", subs |-> <<>>, sid |-> PNone, base |-> 0,
     name |-> <<>>, include |-> {}, exclude |-> {}, step |-> 0, uid |-> PNone,
     text |-> PNone, back |-> PNone, again |-> PNone, k |-> 0, shifted |-> PNone,
     user_ok |-> FALSE, group_ok |-> FALSE, explicit |-> PNone, entry_sid |-> PNone,
     group_params |-> EmptyDict, user_params |-> EmptyDict,
     src |-> EmptyDict, mapping |-> <<>>, domain |-> PNone, mapped |-> EmptyDict,
     other |-> <<>>, key |-> <<>>, other_key |-> <<>>,
     upn |-> <<>>, lookup |-> [found |-> TRUE, exc |-> Exc("none", <<>>)], fails |-> {},
     out |-> AzureOut(<<>>, AzureZeroStats, FALSE)]

\* the engine before its first run, on the configuration cfg, the source
\* (users, groups) and the target t
AtRest(cfg, users, groups, t) ==
    /\ config = cfg
    /\ adUsers = users
    /\ adGroups = groups
    /\ adObjects = DirectoryObjects
    /\ ipaUsers = t.users
    /\ ipaGroups = t.groups
    /\ ipaRange = t.range
    /\ ad_conn = "None"
    /\ stats = ZeroStats
    /\ pc = "idle"
    /\ args = [dry_run |-> FALSE, force_users |-> FALSE, force_groups |-> FALSE]
    /\ todo = <<>>
    /\ calls = <<>>
    /\ decisions = <<>>
    /\ faults = 0
    /\ runs = 0
    /\ result = "none"
    /\ cur = [connect |-> "none", clean |-> TRUE, ipaUsers |-> ipaUsers,
              ipaGroups |-> ipaGroups, ipaRange |-> ipaRange, stats |-> ZeroStats,
              adGroups |-> adGroups, listing |-> {}, faults |-> 0]
    /\ hist = <<>>
    /\ srcSame = TRUE

Init ==
    /\ \E cfg \in Configs : \E users \in UserSnapshots : \E groups \in GroupSnapshots :
         \E t \in TargetStates : AtRest(cfg, users, groups, t)
    /\ probe = NoProbe
    /\ reused = FALSE

\* ------------------------------------------------------------------------
\* sync(): the orchestrator
\* ------------------------------------------------------------------------
\* what is kept of a completed run: its arguments and result, its calls and
\* decisions, the records its last loop left unprocessed, and the run's start
Summary(res, a, c, d, start, left) ==
    [result |-> res, args |-> a, calls |-> c, decisions |-> d, connect |-> start.connect,
     clean |-> start.clean, ipaUsers |-> start.ipaUsers, ipaGroups |-> start.ipaGroups,
     ipaRange |-> start.ipaRange, stats |-> start.stats, left |-> left]

\* sync() returns res (or raises: "raised"), leaving the source connection as
\* conn; main() then exits (line 883, lines 891-893)
Return(res, conn, a, c, d, start, left) ==
    /\ pc' = "idle"
    /\ result' = res
    /\ runs' = runs + 1
    /\ ad_conn' = conn
    /\ todo' = <<>>
    /\ hist' = Append(hist, Summary(res, a, c, d, start, left))

\* an order of the phases in which memberships come before the groups
PhaseAfter_MembershipsFirst(phase) ==
    CASE phase = "sync_users" -> "sync_memberships"
      [] phase = "sync_memberships" -> "sync_groups"
      [] OTHER -> "summary"

\* lines 661-669: the phase that follows a phase of sync()
PhaseAfter(phase) ==
    CASE phase = "sync_users" -> "sync_groups"
      [] phase = "sync_groups" -> "sync_memberships"
      [] OTHER -> "summary"

\* the finally clause of sync(): unbind when a connection object exists
Unbound == IF ad_conn = "None" THEN "None" ELSE "unbound"

\* a start that goes on when only the source connection is up
ConnectionsOk_SourceOnly(c) == c # "ad_fails"

\* line 655: both connect_ad() and connect_ipa() returned True
ConnectionsOk(c) == c = "ok"

\* self.stats when sync() starts: the zeros of a new engine (lines 145-154) when
\* main() has just constructed it (line 870); sync() itself (lines 650-690)
\* assigns nothing to self.stats, so a kept engine starts from what it holds
StartStats(kept, st) == IF kept THEN st ELSE ZeroStats

\* a run of the tool: main() constructs the engine (line 870, lines 138-154) and
\* calls sync() (line 883), which connects to both directories (lines 652-656);
\* c says which connection fails; with reused, sync() is called on the engine
\* of the run before
sync_connect(a, c) ==
    /\ pc = "idle"
    /\ runs < MaxRuns
    /\ runs >= 1 => (a.force_users = args.force_users /\ a.force_groups = args.force_groups)
    /\ c # "ok" => faults < MaxFaults
    /\ faults' = IF c = "ok" THEN faults ELSE faults + 1
    /\ args' = a
    /\ stats' = StartStats(reused, stats)
    /\ calls' = <<>>
    /\ decisions' = <<>>
    /\ cur' = [connect |-> c, clean |-> c = "ok", ipaUsers |-> ipaUsers,
               ipaGroups |-> ipaGroups, ipaRange |-> ipaRange, stats |-> stats',
               adGroups |-> adGroups, listing |-> {}, faults |-> faults]
    /\ IF ConnectionsOk(c)
       THEN /\ ad_conn' = "bound"
            /\ pc' = "ensure_id_range"
            /\ UNCHANGED <<runs, result, todo, hist>>
       ELSE Return("False", IF c = "ad_fails" THEN "None" ELSE "bound", a, <<>>, <<>>,
                   cur', 0)
    /\ UNCHANGED <<reused, probe, config, adUsers, adGroups, adObjects, ipaUsers, ipaGroups, ipaRange,
                   srcSame>>

\* a sync() that goes straight to its summary when the range could not be ensured
PhaseAfterRange_SkipOnFailure(failed) == IF failed THEN "summary" ELSE "sync_users"

\* lines 219-223 and 659: ensure_id_range returns True after a failure too, and
\* sync() does not read what it returns
PhaseAfterRange(failed) == "sync_users"

\* ensure_id_range (lines 186-223); f is "none", "show" or "add"
ensure_id_range(f) ==
    /\ pc = "ensure_id_range"
    /\ f # "none" => faults < MaxFaults
    /\ f = "add" => ~ipaRange
    /\ faults' = IF f = "none" THEN faults ELSE faults + 1
    /\ LET show == Call("idrange_show", <<>>, <<>>, EmptyDict,
                        IF f = "show" THEN "error"
                        ELSE IF ipaRange THEN "ok" ELSE "notfound")
           add == Call("idrange_add", <<>>, <<>>,
                       ("ipabaseid" :> PInt(config.id_range_base))
                         @@ ("ipaidrangesize" :> PInt(200000))
                         @@ ("ipabaserid" :> PInt((config.id_range_base % 1000000000) \div 1000))
                         @@ ("ipasecondarybaserid"
                               :> PInt(100000000 + (config.id_range_base % 1000000000) \div 1000)),
                       IF f = "add" THEN "error" ELSE "ok")
       IN  IF f = "show" \/ ipaRange
           THEN /\ calls' = calls \o InPhase(<<show>>, "range")
                /\ ipaRange' = ipaRange
           ELSE /\ calls' = calls \o InPhase(<<show, add>>, "range")
                /\ ipaRange' = (f # "add")
    /\ cur' = [cur EXCEPT !.clean = @ /\ f = "none"]
    /\ pc' = PhaseAfterRange(f # "none")
    /\ UNCHANGED <<reused, probe, config, adUsers, adGroups, adObjects, ipaUsers, ipaGroups, ad_conn, stats,
                   args, todo, decisions, runs, result, hist, srcSame>>

\* a listing that hands over the entries it read although the search failed
Listed_DespiteFailure(ok, records) == records

\* lines 290-292 and 335-337: get_ad_users and get_ad_groups return the list
\* they built, or [] when the search or the reading of an entry raised
Listed(ok, records) == IF ok THEN records ELSE <<>>

\* line 662 and line 387: the phase is skipped, or the source users are fetched;
\* a failing search leaves an empty list
sync_users_begin(ok) ==
    /\ pc = "sync_users"
    /\ ~ok => (config.sync_users /\ faults < MaxFaults)
    /\ faults' = IF ok THEN faults ELSE faults + 1
    /\ LET users == IF config.sync_users
                    THEN Listed(ok, get_ad_users(adUsers, config.id_range_base)) ELSE <<>>
       IN  /\ todo' = users
           /\ pc' = IF users = <<>> THEN PhaseAfter("sync_users") ELSE "users_loop"
    /\ cur' = [cur EXCEPT !.clean = @ /\ ok,
                          !.listing = IF ok THEN @ ELSE @ \cup {"users"}]
    /\ UNCHANGED <<reused, probe, config, adUsers, adGroups, adObjects, ipaUsers, ipaGroups, ipaRange, ad_conn,
                   stats, args, calls, decisions, runs, result, hist, srcSame>>

sync_users_step(f) ==
    /\ pc = "users_loop"
    /\ f # "none" => faults < MaxFaults
    /\ LET o == UserOutcome(Head(todo), args.dry_run, args.force_users, f) IN
       /\ o.fits
       /\ ipaUsers' = o.ipaUsers
       /\ stats' = o.stats
       /\ calls' = calls \o InPhase(o.calls, "users")
       /\ decisions' = decisions \o o.decisions
       /\ cur' = [cur EXCEPT !.clean = @ /\ f = "none" /\ ~o.raised]
       /\ IF o.raised
          THEN Return("raised", Unbound, args, calls', decisions', cur', Len(Tail(todo)))
          ELSE /\ todo' = Tail(todo)
               /\ pc' = IF Tail(todo) = <<>> THEN PhaseAfter("sync_users") ELSE "users_loop"
               /\ UNCHANGED <<runs, result, ad_conn, hist>>
    /\ faults' = IF f = "none" THEN faults ELSE faults + 1
    /\ UNCHANGED <<reused, probe, config, adUsers, adGroups, adObjects, ipaGroups, ipaRange, args, srcSame>>

\* line 665 and line 503
sync_groups_begin(ok) ==
    /\ pc = "sync_groups"
    /\ ~ok => (config.sync_groups /\ faults < MaxFaults)
    /\ faults' = IF ok THEN faults ELSE faults + 1
    /\ LET groups == IF config.sync_groups
                     THEN Listed(ok, get_ad_groups(adGroups, config.id_range_base)) ELSE <<>>
       IN  /\ todo' = groups
           /\ pc' = IF groups = <<>> THEN PhaseAfter("sync_groups") ELSE "groups_loop"
    /\ cur' = [cur EXCEPT !.clean = @ /\ ok,
                          !.listing = IF ok THEN @ ELSE @ \cup {"groups"}]
    /\ UNCHANGED <<reused, probe, config, adUsers, adGroups, adObjects, ipaUsers, ipaGroups, ipaRange, ad_conn,
                   stats, args, calls, decisions, runs, result, hist, srcSame>>

sync_groups_step(f) ==
    /\ pc = "groups_loop"
    /\ f # "none" => faults < MaxFaults
    /\ LET o == GroupOutcome(Head(todo), args.dry_run, args.force_groups, f) IN
       /\ o.fits
       /\ ipaGroups' = o.ipaGroups
       /\ stats' = o.stats
       /\ calls' = calls \o InPhase(o.calls, "groups")
       /\ decisions' = decisions \o o.decisions
       /\ cur' = [cur EXCEPT !.clean = @ /\ f = "none" /\ ~o.raised]
       /\ IF o.raised
          THEN Return("raised", Unbound, args, calls', decisions', cur', Len(Tail(todo)))
          ELSE /\ todo' = Tail(todo)
               /\ pc' = IF Tail(todo) = <<>> THEN PhaseAfter("sync_groups")
                                              ELSE "groups_loop"
               /\ UNCHANGED <<runs, result, ad_conn, hist>>
    /\ faults' = IF f = "none" THEN faults ELSE faults + 1
    /\ UNCHANGED <<reused, probe, config, adUsers, adGroups, adObjects, ipaUsers, ipaRange, args, srcSame>>

\* line 668 and line 561
sync_memberships_begin(ok) ==
    /\ pc = "sync_memberships"
    /\ ~ok => (config.sync_group_memberships /\ faults < MaxFaults)
    /\ faults' = IF ok THEN faults ELSE faults + 1
    /\ LET groups == IF config.sync_group_memberships
                     THEN Listed(ok, get_ad_groups(adGroups, config.id_range_base)) ELSE <<>>
       IN  /\ todo' = groups
           /\ pc' = IF groups = <<>> THEN PhaseAfter("sync_memberships")
                                    ELSE "memberships_loop"
    /\ cur' = [cur EXCEPT !.clean = @ /\ ok,
                          !.listing = IF ok THEN @ ELSE @ \cup {"memberships"}]
    /\ UNCHANGED <<reused, probe, config, adUsers, adGroups, adObjects, ipaUsers, ipaGroups, ipaRange, ad_conn,
                   stats, args, calls, decisions, runs, result, hist, srcSame>>

sync_memberships_step ==
    /\ pc = "memberships_loop"
    /\ \E F \in SUBSET MemberSites(Head(todo)) :
         /\ faults + Cardinality(F) <= MaxFaults
         /\ MemberFits(Head(todo), args.dry_run, F)
         /\ LET name == DictGet(Head(todo).attributes, "sAMAccountName", PNone)
                known == /\ Truthy(name)
                         /\ should_sync_group(name.v, config)
                         /\ MembershipGroupName(name.v) \in DOMAIN ipaGroups
            IN  \E ou \in Orders(IF known THEN ToAddUsers(Head(todo), F) ELSE {}) :
                \E og \in Orders(IF known THEN ToAddGroups(Head(todo), F) ELSE {}) :
                   LET o == MemberOutcome(Head(todo), args.dry_run, F, ou, og) IN
                   /\ ipaGroups' = o.ipaGroups
                   /\ stats' = o.stats
                   /\ calls' = calls \o InPhase(o.calls, "memberships")
                   /\ decisions' = decisions \o o.decisions
         /\ faults' = faults + Cardinality(F)
         /\ cur' = [cur EXCEPT !.clean = @ /\ F = {}]
    /\ todo' = Tail(todo)
    /\ pc' = IF Tail(todo) = <<>> THEN PhaseAfter("sync_memberships") ELSE "memberships_loop"
    /\ UNCHANGED <<reused, probe, config, adUsers, adGroups, adObjects, ipaUsers, ipaRange, ad_conn, args,
                   runs, result, hist, srcSame>>

\* lines 671-690: the summary is logged, sync() returns True and the finally
\* clause unbinds the source connection
sync_summary ==
    /\ pc = "summary"
    /\ Return("True", Unbound, args, calls, decisions, cur, 0)
    /\ UNCHANGED <<reused, probe, config, adUsers, adGroups, adObjects, ipaUsers, ipaGroups, ipaRange, stats,
                   args, calls, decisions, faults, cur, srcSame>>

\* between two runs the source drops the first member of a group
source_drops_member ==
    /\ pc = "idle"
    /\ runs >= 1
    /\ runs < MaxRuns
    /\ srcSame
    /\ \E k \in 1..Len(adGroups) :
         /\ "member" \in DOMAIN adGroups[k].attrs
         /\ adGroups[k].attrs["member"].t = "list"
         /\ adGroups[k].attrs["member"].v # <<>>
         /\ adGroups' = [adGroups EXCEPT ![k].attrs["member"].v = Tail(@)]
    /\ srcSame' = FALSE
    /\ UNCHANGED <<reused, probe, config, adUsers, adObjects, ipaUsers, ipaGroups, ipaRange, ad_conn, stats,
                   pc, args, todo, calls, decisions, faults, runs, result, cur, hist>>

Next ==
    \/ \E a \in ArgSets : \E c \in {"ok", "ad_fails", "ipa_fails"} : sync_connect(a, c)
    \/ \E f \in {"none", "show", "add"} : ensure_id_range(f)
    \/ \E ok \in BOOLEAN : sync_users_begin(ok)
    \/ \E f \in {"none", "show", "mod", "status", "add"} : sync_users_step(f)
    \/ \E ok \in BOOLEAN : sync_groups_begin(ok)
    \/ \E f \in {"none", "show", "add"} : sync_groups_step(f)
    \/ \E ok \in BOOLEAN : sync_memberships_begin(ok)
    \/ sync_memberships_step
    \/ sync_summary
    \/ source_drops_member

Spec == Init /\ [][Next]_vars

\* a caller that constructs the engine once and calls sync() on it repeatedly
ReuseInit ==
    /\ \E cfg \in Configs : \E users \in UserSnapshots : \E groups \in GroupSnapshots :
         \E t \in TargetStates : AtRest(cfg, users, groups, t)
    /\ probe = NoProbe
    /\ reused = TRUE

ReuseSpec == ReuseInit /\ [][Next]_vars


\* ------------------------------------------------------------------------
\* The identifier mapper and the scope filter applied to inputs of their own
\* ------------------------------------------------------------------------
\* the largest number of sub-authorities of an input SID
MaxSubAuths == 5

\* the base of the example in the comment of ensure_id_range
ExampleIdRangeBase == 1668600000

\* values of a sub-authority that take one byte and two bytes
SubAuthValues == {0, 21, 1105}

\* S-1-5-21-1-2-3-1105 as its sub-authorities
ExampleSubAuths == <<21, 1, 2, 3, 1105>>

SubAuthLists ==
    UNION {[1..n -> SubAuthValues] : n \in 0..MaxSubAuths} \cup {ExampleSubAuths}

IdRangeBases == {0, DefaultIdRangeBase, ExampleIdRangeBase}

\* the four bytes struct.unpack('<I', ...) reads v from
PackLE32(v) ==
    <<v % 256, (v \div 256) % 256, (v \div 65536) % 256, (v \div 16777216) % 256>>

RECURSIVE PackSubAuths(_)
PackSubAuths(subs) ==
    IF subs = <<>> THEN <<>> ELSE PackLE32(Head(subs)) \o PackSubAuths(Tail(subs))

\* the binary SID of revision 1 and authority 5 with the sub-authorities subs:
\* revision byte, count byte, six authority bytes, four bytes per sub-authority
BinarySidOf(subs) == <<1, Len(subs), 0, 0, 0, 0, 0, 5>> \o PackSubAuths(subs)

RECURSIVE DashJoined(_)
DashJoined(subs) ==
    IF subs = <<>> THEN <<>>
    ELSE <<"-">> \o IntToStr(Head(subs)) \o DashJoined(Tail(subs))

\* the textual SID S-1-5-... with the sub-authorities subs
TextSidOf(subs) == <<"S", "-", "1", "-", "5">> \o DashJoined(subs)

\* a sequence without its last n elements
DropLast(b, n) == SubSeq(b, 1, Len(b) - n)

\* the forms of an input SID: well formed in bytes or in text, a text whose last
\* component is no integer, a buffer that lacks the last two bytes, and a buffer
\* whose count byte declares one sub-authority more than it holds
SidForms == {"binary", "text", "text_bad", "binary_cut", "binary_over"}

SidOf(form, subs) ==
    CASE form = "binary" -> PBytes(BinarySidOf(subs))
      [] form = "text" -> PStr(TextSidOf(subs))
      [] form = "text_bad" -> PStr(TextSidOf(subs) \o <<"-", "x">>)
      [] form = "binary_cut" -> PBytes(DropLast(BinarySidOf(subs), 2))
      [] OTHER -> PBytes([BinarySidOf(subs) EXCEPT ![2] = Len(subs) + 1])

SidProbe(form, subs, base) ==
    [NoProbe EXCEPT !.kind = "sid", !.form = form, !.subs = subs, !.base = base,
                    !.sid = SidOf(form, subs)]

\* the amounts a base is raised by
Shifts == {1, 1000}

ScopeNames == {Alice, Bob, Carol}

ScopeProbe(name, include, exclude) ==
    [NoProbe EXCEPT !.kind = "scope", !.name = name, !.include = include,
                    !.exclude = exclude]

\* an attribute the source entry does not have
PAbsent == [t |-> "absent", v |-> 0]

\* the uidNumber or gidNumber of a source entry: none, 0, 5
ExplicitIds == {PAbsent, PInt(0), PInt(5)}

\* the objectSid of a source entry: none, S-1-5-21-9 in bytes, S-1-5-21-1-2-3-7
\* in text, and a buffer of 8 bytes
EntrySids == {PAbsent, PBytes(BinarySid), PStr(TextSid), PBytes(BinarySidOf(<<>>))}

EntryProbe(explicit, sid, base) ==
    [NoProbe EXCEPT !.kind = "entry", !.explicit = explicit, !.entry_sid = sid,
                    !.base = base]

\* the attribute k with the value x, or nothing when the entry lacks it
Attr(k, x) == IF x = PAbsent THEN EmptyDict ELSE (k :> x)

\* the source entry of the probe, with its numeric identity under the name k
ProbeEntry(k) ==
    [dn |-> DnDevOps,
     attrs |-> ("sAMAccountName" :> PStr(Carol)) @@ Attr(k, probe.explicit)
                 @@ Attr("objectSid", probe.entry_sid)]

\* what ldap3 hands over for an attribute of an entry: nothing, None, a string,
\* an integer or a list of strings; empty and non-empty of each
SourceValues ==
    {PAbsent, PNone, PStr(<<>>), PStr(<<"v">>), PInt(0), PInt(7), PList(<<>>),
     PList(<<PStr(<<"v">>), PStr(<<"w">>)>>), PList(<<PStr(<<>>), PStr(<<"w">>)>>)}

\* the login name of a source entry under evaluation
SourceLoginValues == {PAbsent, PStr(Carol), PInt(7)}

\* default_email_domain: not configured, empty, "d"
DefaultDomains == {PNone, PStr(<<>>), PStr(<<"d">>)}

\* a table in which two source attributes map to the target attribute mail
TwoToOneMapping ==
    <<<<"sAMAccountName", "uid">>, <<"mail", "mail">>, <<"givenName", "mail">>>>

MappingTables == {StandardMapping, NameOnlyMapping, TwoToOneMapping}

MapProbe(login, given, mail, mapping, domain) ==
    [NoProbe EXCEPT !.kind = "map",
                    !.src = Attr("sAMAccountName", login) @@ Attr("givenName", given)
                              @@ Attr("mail", mail),
                    !.mapping = mapping, !.domain = domain]

\* names of source groups: with a space, with a hyphen, in parentheses, plain
SourceGroupNameSet ==
    {DevOps, <<"d", "-", "o">>, Admins, <<"x">>, <<"y">>}

\* two source groups of one snapshot, by name
NamesProbe(name, other) ==
    [NoProbe EXCEPT !.kind = "names", !.name = name, !.other = other]

\* userPrincipalName of an Azure user: none, c@x, @x
PrincipalNames == {<<>>, <<"c", "@", "x">>, <<"@", "x">>}

AzureProbe(upn, lookup, fails) ==
    [NoProbe EXCEPT !.kind = "azure", !.upn = upn, !.lookup = lookup, !.fails = fails]

Probes ==
    {SidProbe(form, subs, base) :
        form \in SidForms, subs \in SubAuthLists, base \in IdRangeBases}
    \cup {ScopeProbe(name, include, exclude) :
            name \in ScopeNames, include \in SUBSET ScopeNames,
            exclude \in SUBSET ScopeNames}
    \cup {EntryProbe(explicit, sid, base) :
            explicit \in ExplicitIds, sid \in EntrySids, base \in IdRangeBases}
    \cup {NamesProbe(name, other) :
            name \in SourceGroupNameSet, other \in SourceGroupNameSet}
    \cup {AzureProbe(upn, lookup, fails) :
            upn \in PrincipalNames, lookup \in LookupOutcomes,
            fails \in SUBSET {"add", "password", "expiration"}}
    \cup {MapProbe(login, given, mail, mapping, domain) :
            login \in SourceLoginValues, given \in SourceValues, mail \in SourceValues,
            mapping \in MappingTables, domain \in DefaultDomains}

\* the configuration whose user and group filters are the lists of the probe
ProbeConfig ==
    [BaseConfig EXCEPT !.user_include_filter = probe.include,
                       !.user_exclude_filter = probe.exclude,
                       !.group_include_filter = probe.include,
                       !.group_exclude_filter = probe.exclude]

PureInit ==
    /\ AtRest(BaseConfig, CHOOSE users \in UserSnapshots : TRUE,
              CHOOSE groups \in GroupSnapshots : TRUE,
              CHOOSE t \in TargetStates : TRUE)
    /\ probe \in Probes
    /\ reused = FALSE

RunUnchanged ==
    UNCHANGED <<config, adUsers, adGroups, adObjects, ipaUsers, ipaGroups, ipaRange,
                ad_conn, stats, pc, args, todo, calls, decisions, faults, runs, result,
                cur, hist, srcSame, reused>>

\* sid_to_uid(sid, base)
derive_uid ==
    /\ probe.kind = "sid"
    /\ probe.step = 0
    /\ probe' = [probe EXCEPT !.uid = sid_to_uid(probe.sid, probe.base), !.step = 1]
    /\ RunUnchanged

\* sid_to_string(sid)
render_sid ==
    /\ probe.kind = "sid"
    /\ probe.step = 1
    /\ probe' = [probe EXCEPT !.text = sid_to_string(probe.sid), !.step = 2]
    /\ RunUnchanged

\* sid_to_uid(sid_to_string(sid), base)
derive_uid_from_text ==
    /\ probe.kind = "sid"
    /\ probe.step = 2
    /\ probe' = [probe EXCEPT !.back = sid_to_uid(probe.text, probe.base), !.step = 3]
    /\ RunUnchanged

\* sid_to_uid(sid, base), called once more
derive_uid_again ==
    /\ probe.kind = "sid"
    /\ probe.step = 3
    /\ probe' = [probe EXCEPT !.again = sid_to_uid(probe.sid, probe.base), !.step = 4]
    /\ RunUnchanged

\* sid_to_uid(sid, base + k)
derive_uid_shifted(k) ==
    /\ probe.kind = "sid"
    /\ probe.step = 4
    /\ probe' = [probe EXCEPT !.shifted = sid_to_uid(probe.sid, probe.base + k),
                              !.k = k, !.step = 5]
    /\ RunUnchanged

\* should_sync_user(name)
filter_user ==
    /\ probe.kind = "scope"
    /\ probe.step = 0
    /\ probe' = [probe EXCEPT !.user_ok = should_sync_user(probe.name, ProbeConfig),
                              !.step = 1]
    /\ RunUnchanged

\* should_sync_group(name)
filter_group ==
    /\ probe.kind = "scope"
    /\ probe.step = 1
    /\ probe' = [probe EXCEPT !.group_ok = should_sync_group(probe.name, ProbeConfig),
                              !.step = 2]
    /\ RunUnchanged

\* get_ad_groups on the entry, and the parameters sync_groups gives group_add
read_group_entry ==
    /\ probe.kind = "entry"
    /\ probe.step = 0
    /\ probe' = [probe EXCEPT
                   !.group_params =
                       GroupAddParams(AdGroup(ProbeEntry("gidNumber"), probe.base).attributes),
                   !.step = 1]
    /\ RunUnchanged

\* get_ad_users on the entry, map_user_attributes, and the arguments sync_users
\* gives user_add
read_user_entry ==
    /\ probe.kind = "entry"
    /\ probe.step = 1
    /\ probe' = [probe EXCEPT
                   !.user_params =
                       CreateParams(
                           map_user_attributes(AdUser(ProbeEntry("uidNumber"), probe.base),
                                               StandardMapping, PNone),
                           Carol),
                   !.step = 2]
    /\ RunUnchanged

\* map_user_attributes on the entry of the probe
map_attributes ==
    /\ probe.kind = "map"
    /\ probe.step = 0
    /\ probe' = [probe EXCEPT
                   !.mapped = map_user_attributes([dn |-> DnDevOps, attributes |-> probe.src],
                                                  probe.mapping, probe.domain),
                   !.step = 1]
    /\ RunUnchanged

\* the target keys sync_groups (lines 510-515) and sync_memberships (lines
\* 568-572) use for the two source groups of the probe
sanitize_names ==
    /\ probe.kind = "names"
    /\ probe.step = 0
    /\ probe' = [probe EXCEPT !.key = SanitizeGroupName(probe.name),
                              !.other_key = MembershipGroupName(probe.other),
                              !.step = 1]
    /\ RunUnchanged

\* sync_user_to_freeipa on the Azure user of the probe, from fresh counters
azure_sync_user ==
    /\ probe.kind = "azure"
    /\ probe.step = 0
    /\ probe' = [probe EXCEPT
                   !.out = sync_user_to_freeipa(probe.upn, probe.lookup, probe.fails,
                                                AzureZeroStats),
                   !.step = 1]
    /\ RunUnchanged

PureNext ==
    \/ derive_uid
    \/ render_sid
    \/ derive_uid_from_text
    \/ derive_uid_again
    \/ \E k \in Shifts : derive_uid_shifted(k)
    \/ filter_user
    \/ filter_group
    \/ read_group_entry
    \/ read_user_entry
    \/ map_attributes
    \/ sanitize_names
    \/ azure_sync_user

PureSpec == PureInit /\ [][PureNext]_vars
\* ------------------------------------------------------------------------
\* Properties
\* ------------------------------------------------------------------------
\* the source users as sync_users reads them, and the one with login username
SourceUsers ==
    LET users == get_ad_users(adUsers, config.id_range_base) IN
    {users[i] : i \in 1..Len(users)}

SourceUser(username) ==
    CHOOSE u \in SourceUsers :
        DictGet(u.attributes, "sAMAccountName", PNone) = PStr(username)

\* the logins of the source accounts that are disabled
DisabledLogins ==
    {u.attributes["sAMAccountName"].v :
        u \in {x \in SourceUsers :
                 /\ Truthy(DictGet(x.attributes, "sAMAccountName", PNone))
                 /\ DictGet(x.attributes, "_is_disabled", PBool(FALSE)).v}}

\* the positions of the log cs that hold a call of one of the operations ops
CallsOf(cs, ops) == {i \in 1..Len(cs) : cs[i].op \in ops}

\* the lookups of a phase after which the iteration raised no error: no failed
\* call of the phase follows before the next lookup
CleanSteps(cs, phase, showOp) ==
    {i \in 1..Len(cs) :
        /\ cs[i].op = showOp
        /\ cs[i].phase = phase
        /\ cs[i].res # "error"
        /\ \A j \in (i + 1)..Len(cs) :
             (cs[j].phase = phase /\ cs[j].res = "error")
                => \E k \in (i + 1)..j : cs[k].op = showOp}

\* C1: a dry run issues no call that changes the target, the creation of the
\* identity range included
C1_DryRunIssuesNoMutation ==
    args.dry_run => CallsOf(calls, MutatingOps) = {}

\* a failure-free dry run followed, on the same source and the same target
\* principals and groups, by a failure-free live run with the same force flags
DryThenLive ==
    /\ Len(hist) = 2
    /\ srcSame
    /\ hist[1].args.dry_run /\ ~hist[2].args.dry_run
    /\ hist[1].clean /\ hist[2].clean
    /\ hist[1].result = "True" /\ hist[2].result = "True"
    /\ hist[1].ipaUsers = hist[2].ipaUsers
    /\ hist[1].ipaGroups = hist[2].ipaGroups

\* C2: the decisions a dry run reports are, in kind, content and order, the
\* decisions the live run takes on the same source, target and force flags
C2_DryRunDecidesAsLive ==
    DryThenLive => hist[1].decisions = hist[2].decisions

\* the calls are those of a run that follows a failure-free live first run on an
\* unchanged source
AfterConvergedRun ==
    /\ Len(hist) >= 1
    /\ srcSame
    /\ ~hist[1].args.dry_run
    /\ hist[1].clean
    /\ hist[1].result = "True"
    /\ (Len(hist) = 2 \/ pc # "idle")

\* C3 as written: the run after a failure-free live run issues no create, no
\* update and no enable or disable call for any principal, forced or not
C3_SecondRunIssuesNoPrincipalCall ==
    AfterConvergedRun
        => CallsOf(calls, {"user_add", "user_mod", "user_enable", "user_disable"}) = {}

\* C3: the run after a failure-free live run issues no create and no enable or
\* disable call for any principal, forced or not, and no update call unless it is
\* forced
C3_SecondRunCreatesAndReconcilesNothing ==
    AfterConvergedRun
        => /\ CallsOf(calls, {"user_add", "user_enable", "user_disable"}) = {}
           /\ ~args.force_users => CallsOf(calls, {"user_mod"}) = {}

\* the first run created a principal and the second, forced, looked it up and
\* updated it
C3_Witness ==
    /\ AfterConvergedRun
    /\ Len(hist) = 2
    /\ hist[2].result = "True"
    /\ args.force_users
    /\ \E i \in CallsOf(hist[1].calls, {"user_add"}) :
         \E j \in CallsOf(calls, {"user_mod"}) :
            /\ hist[1].calls[i].key = calls[j].key
            /\ calls[j].key \in DisabledLogins

\* C4: at every point of a run each group of the target that existed when the
\* run started still exists and its user members and its group members include
\* those it had then; no call that removes an entry or a member is issued
C4_MembersOnlyGrow ==
    /\ \A g \in DOMAIN cur.ipaGroups :
         /\ g \in DOMAIN ipaGroups
         /\ cur.ipaGroups[g].member_user \subseteq ipaGroups[g].member_user
         /\ cur.ipaGroups[g].member_group \subseteq ipaGroups[g].member_group
    /\ CallsOf(calls, {"group_remove_member", "group_del", "user_del"}) = {}

\* the source dropped alice from the group after the first run; the second, live,
\* run went through the group's members and alice is a member still
C4_Witness ==
    /\ Len(hist) = 2
    /\ ~srcSame
    /\ ~args.dry_run
    /\ result = "True"
    /\ PStr(DnAlice) \notin {MemberList(adGroups[1].attrs)[i] :
                               i \in 1..Len(MemberList(adGroups[1].attrs))}
    /\ \E i \in CallsOf(calls, {"group_show"}) :
         /\ calls[i].phase = "memberships"
         /\ calls[i].key = SanitizeGroupName(DevOps)
         /\ calls[i].res = "ok"
    /\ Alice \in ipaGroups[SanitizeGroupName(DevOps)].member_user
    /\ CallsOf(calls, {"group_add_member"}) # {}

\* C5: in a live run every principal found in the target gets exactly one of
\* Enable, Disable and NoOp, whatever force is and whether or not the forced
\* update succeeds
C5_StatusAlwaysReconciled ==
    ~args.dry_run
        => \A i \in CallsOf(calls, {"user_show"}) :
              calls[i].res = "ok"
                 => Cardinality({j \in 1..Len(decisions) :
                                    /\ decisions[j].key = calls[i].key
                                    /\ decisions[j].kind \in {"Enable", "Disable", "NoOp"}}) = 1

\* the creations of a live run that completed: user_add succeeded and the
\* user_disable that follows it, if any, did too
CompletedCreations ==
    {i \in CallsOf(calls, {"user_add"}) :
        /\ calls[i].res = "ok"
        /\ ~(/\ i < Len(calls)
             /\ calls[i + 1].op = "user_disable"
             /\ calls[i + 1].key = calls[i].key
             /\ calls[i + 1].res = "error")}

\* C6: in a live run a disabled source principal that the target lacks is
\* created by one user_add, which is followed at once by one user_disable for
\* the same login when it succeeded; no other create or disable names the login,
\* and the created counter grows by one for each completed creation
C6_DisabledPrincipalCreatedThenDisabled ==
    ~args.dry_run
        => /\ \A i \in CallsOf(calls, {"user_show"}) :
                (calls[i].res = "notfound" /\ calls[i].key \in DisabledLogins)
                   => /\ i < Len(calls)
                      /\ calls[i + 1].op = "user_add"
                      /\ calls[i + 1].key = calls[i].key
                      /\ calls[i + 1].res = "ok"
                           => /\ i + 1 < Len(calls)
                              /\ calls[i + 2].op = "user_disable"
                              /\ calls[i + 2].key = calls[i].key
                      /\ Cardinality({j \in CallsOf(calls, {"user_add"}) :
                                         calls[j].key = calls[i].key}) = 1
                      /\ Cardinality({j \in CallsOf(calls, {"user_disable"}) :
                                         calls[j].key = calls[i].key}) <= 1
           /\ stats.users_created
                = cur.stats.users_created + Cardinality(CompletedCreations)

\* a live run created the disabled alice: lookup, create and disable in a row,
\* the entry locked and the counter one up
C6_Witness ==
    /\ ~args.dry_run
    /\ Alice \in DisabledLogins
    /\ \E i \in CallsOf(calls, {"user_show"}) :
         /\ calls[i].key = Alice
         /\ calls[i].res = "notfound"
         /\ i + 1 < Len(calls)
         /\ calls[i + 1].res = "ok"
         /\ calls[i + 2].res = "ok"
    /\ Alice \in DOMAIN ipaUsers
    /\ ipaUsers[Alice].nsaccountlock
    /\ stats.users_created = cur.stats.users_created + 1

\* the source attribute names the mapping table maps to the target attribute k
MappedFrom(k) ==
    {config.user_attribute_mapping[i][1] :
        i \in {j \in 1..Len(config.user_attribute_mapping) :
                 config.user_attribute_mapping[j][2] = k}}

\* the source entry with login username, as the directory returns it
SourceEntry(username) ==
    CHOOSE e \in {adUsers[i] : i \in 1..Len(adUsers)} :
        DictGet(e.attrs, "sAMAccountName", PNone) = PStr(username)

\* C7: an update call carries every target attribute the mapping table produced
\* for the source record (the login, which the call is addressed to, apart) and
\* no attribute whose source attribute the record lacks; an unforced run issues
\* no update call
C7_ForcedUpdateCarriesTheMapping ==
    /\ \A i \in CallsOf(calls, {"user_mod"}) :
         LET ipa_user == map_user_attributes(SourceUser(calls[i].key),
                                             config.user_attribute_mapping,
                                             config.default_email_domain)
         IN  /\ DOMAIN ipa_user \ {"uid"} \subseteq DOMAIN calls[i].params
             /\ \A k \in DOMAIN calls[i].params :
                  MappedFrom(k) \cap DOMAIN SourceEntry(calls[i].key).attrs # {}
    /\ ~args.force_users => CallsOf(calls, {"user_mod"}) = {}

\* C8: a failing target call ends the iteration of its entity only: no run is
\* ended by it with records or phases left unprocessed, and the created and
\* updated counters count the iterations that raised no error
C8_FailureStaysWithItsEntity ==
    /\ \A k \in 1..Len(hist) :
         /\ hist[k].result \in {"True", "False"}
         /\ hist[k].left = 0
    /\ stats.users_created + stats.users_updated
         = cur.stats.users_created + cur.stats.users_updated
             + Cardinality(CleanSteps(calls, "users", "user_show"))
    /\ stats.groups_created + stats.groups_updated
         = cur.stats.groups_created + cur.stats.groups_updated
             + Cardinality(CleanSteps(calls, "groups", "group_show"))

\* the names an error counter of the statistics would go by
ErrorCounters == {"errors", "users_errors", "groups_errors", "memberships_errors"}

RECURSIVE SumOf(_, _)
SumOf(st, K) ==
    IF K = {} THEN 0
    ELSE LET k == CHOOSE x \in K : TRUE IN st[k] + SumOf(st, K \ {k})

\* the errors the statistics st report
ErrorCount(st) == SumOf(st, DOMAIN st \cap ErrorCounters)

\* the calls of the log that tried to change a principal, a group or a membership
\* and failed
FailedMutations(cs) ==
    {i \in CallsOf(cs, MutatingOps \ {"idrange_add"}) : cs[i].res = "error"}

\* C9: the error count of the statistics grows in a run by the number of
\* entities whose mutation failed
C9_FailuresAreCounted ==
    ErrorCount(stats) = ErrorCount(cur.stats) + Cardinality(FailedMutations(calls))

\* C10: when a connection cannot be made sync() returns False, and neither then
\* nor before the next run is a call that changes the target issued or the
\* target changed
C10_ConnectionFailureAborts ==
    cur.connect \in {"ad_fails", "ipa_fails"}
        => /\ pc = "idle"
           /\ result = "False"
           /\ CallsOf(calls, MutatingOps) = {}
           /\ ipaUsers = cur.ipaUsers
           /\ ipaGroups = cur.ipaGroups
           /\ ipaRange = cur.ipaRange

\* the target connection failed at the start of the second run, after a first
\* run that changed the target
C10_Witness ==
    /\ Len(hist) = 2
    /\ cur.connect = "ipa_fails"
    /\ hist[2].result = "False"
    /\ CallsOf(hist[1].calls, MutatingOps) # {}

\* the place of a phase in the order of sync()
PhaseRank(phase) ==
    CASE phase = "range" -> 0
      [] phase = "users" -> 1
      [] phase = "groups" -> 2
      [] OTHER -> 3

\* C11: in the log of a run no call of a phase precedes a call of an earlier
\* phase (principals, then groups, then memberships), and a phase the
\* configuration disables issues no call
C11_PhasesInOrder ==
    /\ \A i, j \in 1..Len(calls) :
         i < j => PhaseRank(calls[i].phase) <= PhaseRank(calls[j].phase)
    /\ ~config.sync_users => \A i \in 1..Len(calls) : calls[i].phase # "users"
    /\ ~config.sync_groups => \A i \in 1..Len(calls) : calls[i].phase # "groups"
    /\ ~config.sync_group_memberships
         => \A i \in 1..Len(calls) : calls[i].phase # "memberships"

\* a completed run whose log holds calls of all three phases
C11_Witness ==
    /\ pc = "idle"
    /\ result = "True"
    /\ \A phase \in {"users", "groups", "memberships"} :
         \E i \in 1..Len(calls) : calls[i].phase = phase

\* the calls are those of a run that follows a completed first run
InLaterRun == Len(hist) >= 1 /\ (Len(hist) >= 2 \/ pc # "idle")

\* C12: no key of a call of the group phase or of the membership phase holds a
\* space or a parenthesis; a group the group phase created is found by every
\* lookup of the membership phase of the same run, and a group a run created is
\* not created again by the next run
C12_SanitizedNameIsTheKey ==
    /\ \A i \in 1..Len(calls) :
         calls[i].phase \in {"groups", "memberships"}
            => \A n \in 1..Len(calls[i].key) : calls[i].key[n] \notin {" ", "(", ")"}
    /\ \A i \in CallsOf(calls, {"group_add"}) :
         calls[i].res = "ok"
            => \A j \in CallsOf(calls, {"group_show"}) :
                  (j > i /\ calls[j].key = calls[i].key) => calls[j].res # "notfound"
    /\ InLaterRun
         => \A i \in CallsOf(hist[1].calls, {"group_add"}) :
               hist[1].calls[i].res = "ok"
                  => \A j \in CallsOf(calls, {"group_add"}) :
                        calls[j].key # hist[1].calls[i].key

\* the first run created the group "d o" as d-o; the second run looked d-o up in
\* its group phase and in its membership phase and found it
C12_Witness ==
    /\ Len(hist) = 2
    /\ \E i \in CallsOf(hist[1].calls, {"group_add"}) :
         /\ hist[1].calls[i].res = "ok"
         /\ hist[1].calls[i].key = <<"d", "-", "o">>
         /\ \E j \in CallsOf(hist[1].calls, {"group_show"}) :
              /\ j > i
              /\ hist[1].calls[j].key = <<"d", "-", "o">>
              /\ hist[1].calls[j].res = "ok"
    /\ \A phase \in {"groups", "memberships"} :
         \E j \in CallsOf(calls, {"group_show"}) :
            /\ calls[j].phase = phase
            /\ calls[j].key = <<"d", "-", "o">>
            /\ calls[j].res = "ok"

\* the group members the target group g had when the run started
StartGroupMembers(g) ==
    IF g \in DOMAIN cur.ipaGroups THEN cur.ipaGroups[g].member_group ELSE {}

\* the user members the target group g had when the run started
StartUserMembers(g) ==
    IF g \in DOMAIN cur.ipaGroups THEN cur.ipaGroups[g].member_user ELSE {}

\* the names of the source groups
SourceGroupNames ==
    {adGroups[i].attrs["sAMAccountName"].v :
        i \in {j \in 1..Len(adGroups) : HasSam(adGroups[j])}}

\* C13: no nested group is added to a target group that already has it as a
\* member under its sanitized name, neither by a call nor by a reported
\* AddMember, and the run after a failure-free live run on an unchanged source
\* adds no nested group
C13_NestedGroupsAddedOnce ==
    /\ \A i \in CallsOf(calls, {"group_add_member"}) :
         "o_group" \in DOMAIN calls[i].params
            => calls[i].member \notin StartGroupMembers(calls[i].key)
    /\ \A i \in 1..Len(decisions) :
         (decisions[i].kind = "AddMember" /\ decisions[i].member \in SourceGroupNames)
            => SanitizeGroupName(decisions[i].member)
                  \notin StartGroupMembers(decisions[i].key)
    /\ AfterConvergedRun
         => \A i \in CallsOf(calls, {"group_add_member"}) :
               "o_group" \notin DOMAIN calls[i].params

\* the source group, as the run read it, that the membership phase handles under
\* the target name g
SourceGroupFor(g) ==
    LET groups == get_ad_groups(cur.adGroups, config.id_range_base) IN
    CHOOSE x \in {groups[i] : i \in 1..Len(groups)} :
        MembershipGroupName(x.attributes["sAMAccountName"].v) = g

\* the user members of the source group of g that resolve, less the user
\* members the target group had
ExpectedUserAdds(g) ==
    ResolvedNames(MemberList(SourceGroupFor(g).attributes), {}, "user")
        \ StartUserMembers(g)

\* the positions of the reported user additions to g
UserAdds(g) ==
    {i \in 1..Len(decisions) :
        /\ decisions[i].kind = "AddMember"
        /\ decisions[i].key = g
        /\ decisions[i].member \notin SourceGroupNames}

\* C14: once the membership phase has looked a target group up, the user
\* additions it reports for the group name each user of (resolved source user
\* members minus current user members) once, and nobody else; without failures
\* they name every such user; a live run issues one call per addition and
\* memberships_added counts the member calls that succeeded
C14_UserMembersAddedOnce ==
    /\ \A i \in CallsOf(calls, {"group_show"}) :
         (calls[i].phase = "memberships" /\ calls[i].res = "ok")
            => LET g == calls[i].key IN
               /\ \A a \in UserAdds(g) : decisions[a].member \in ExpectedUserAdds(g)
               /\ \A a, b \in UserAdds(g) :
                    decisions[a].member = decisions[b].member => a = b
               /\ cur.clean
                    => ExpectedUserAdds(g) = {decisions[a].member : a \in UserAdds(g)}
               /\ Cardinality({c \in CallsOf(calls, {"group_add_member"}) :
                                  /\ calls[c].key = g
                                  /\ "o_user" \in DOMAIN calls[c].params})
                    = IF args.dry_run THEN 0 ELSE Cardinality(UserAdds(g))
    /\ stats.memberships_added
         = Cardinality({c \in CallsOf(calls, {"group_add_member"}) : calls[c].res = "ok"})

\* a live run added bob to x, and looked up d-o, which had alice as a member,
\* without adding her again
C14_Witness ==
    /\ ~args.dry_run
    /\ pc = "idle"
    /\ result = "True"
    /\ Alice \in StartUserMembers(<<"d", "-", "o">>)
    /\ \E i \in CallsOf(calls, {"group_show"}) :
         calls[i].phase = "memberships" /\ calls[i].key = <<"d", "-", "o">>
            /\ calls[i].res = "ok"
    /\ UserAdds(<<"d", "-", "o">>) = {}
    /\ \E c \in CallsOf(calls, {"group_add_member"}) :
         /\ calls[c].key = <<"x">>
         /\ calls[c].member = Bob
         /\ calls[c].res = "ok"
    /\ stats.memberships_added >= 1


\* the lookups of the group phase that found the group in the target
FoundInGroupPhase ==
    {i \in CallsOf(calls, {"group_show"}) :
        calls[i].phase = "groups" /\ calls[i].res = "ok"}

\* C15: in a live run with force_groups, each group the group phase finds in the
\* target is followed by a call that rewrites the attributes of that group, and
\* groups_updated counts the groups found
C15_ForcedGroupUpdateIsSent ==
    (args.force_groups /\ ~args.dry_run)
        => /\ \A i \in FoundInGroupPhase :
                \E j \in CallsOf(calls, {"group_mod"}) :
                    j > i /\ calls[j].key = calls[i].key
           /\ stats.groups_updated = Cardinality(FoundInGroupPhase)

\* C16: without force_groups, the group phase issues no call that changes the
\* target under the name of a group it found there, and groups_updated has
\* grown by one for each group found
C16_FoundGroupIsLeftAlone ==
    ~args.force_groups
        => /\ \A i \in FoundInGroupPhase :
                \A j \in CallsOf(calls, MutatingOps) :
                    calls[j].phase = "groups" => calls[j].key # calls[i].key
           /\ stats.groups_updated = Cardinality(FoundInGroupPhase)

\* a completed live run without force_groups found d-o in the target, counted
\* it, and created x in the same phase
C16_Witness ==
    /\ ~args.force_groups
    /\ ~args.dry_run
    /\ pc = "idle"
    /\ result = "True"
    /\ \E i \in FoundInGroupPhase : calls[i].key = <<"d", "-", "o">>
    /\ \E j \in CallsOf(calls, {"group_add"}) :
         calls[j].key = <<"x">> /\ calls[j].res = "ok"
    /\ stats.groups_updated = 1

\* a login the user filters of the configuration leave out
OutOfScope(username) ==
    \/ config.user_include_filter # {} /\ username \notin config.user_include_filter
    \/ username \in config.user_exclude_filter

\* the logins of the source users
SourceLogins == {u.attributes["sAMAccountName"].v : u \in SourceUsers}

\* the positions of the reports that a user was skipped
UserSkips ==
    {i \in 1..Len(decisions) :
        decisions[i].kind = "Skip" /\ decisions[i].key \in SourceLogins}

\* C17: the user phase issues no call, lookup or change, under a login the
\* filters leave out; users_skipped counts the users reported as skipped, who
\* are left out by the filters and reported once, and after a user phase
\* without failure every source user the filters leave out has been counted
C17_OutOfScopeUserIsOnlyCounted ==
    /\ \A i \in 1..Len(calls) :
         calls[i].phase = "users" => ~OutOfScope(calls[i].key)
    /\ stats.users_skipped = Cardinality(UserSkips)
    /\ \A i, j \in UserSkips :
         /\ OutOfScope(decisions[i].key)
         /\ decisions[i].key = decisions[j].key => i = j
    /\ (pc = "idle" /\ result = "True" /\ cur.clean /\ config.sync_users)
         => {decisions[i].key : i \in UserSkips}
              = {username \in SourceLogins : OutOfScope(username)}

\* a completed live run skipped alice, whom the exclusion filter names, and
\* looked bob up
C17_Witness ==
    /\ pc = "idle"
    /\ result = "True"
    /\ ~args.dry_run
    /\ Alice \in config.user_exclude_filter
    /\ Alice \in SourceLogins
    /\ stats.users_skipped = 1
    /\ \E i \in CallsOf(calls, {"user_show"}) : calls[i].key = Bob
    /\ \A i \in 1..Len(calls) : calls[i].key # Alice

\* what the claim gives for inScope(name, include, exclude)
InScope(name, include, exclude) ==
    /\ include = {} \/ name \in include
    /\ exclude = {} \/ name \notin exclude

\* C18: should_sync_user and should_sync_group both accept a name exactly when
\* (the inclusion list is empty or holds the name) and (the exclusion list is
\* empty or does not hold the name)
C18_ScopeFilterIsTheConjunction ==
    probe.kind = "scope"
        => /\ probe.step >= 1
                => probe.user_ok = InScope(probe.name, probe.include, probe.exclude)
           /\ probe.step >= 2
                => probe.group_ok = InScope(probe.name, probe.include, probe.exclude)

\* both filters have rejected alice, whom both lists name
C18_Witness ==
    /\ probe.kind = "scope"
    /\ probe.step = 2
    /\ probe.name = Alice
    /\ probe.include = {Alice}
    /\ probe.exclude = {Alice}
    /\ ~probe.user_ok
    /\ ~probe.group_ok

\* C19: sid_to_uid gives base plus the last sub-authority, for a textual SID
\* of at least 8 dash-separated components and for a binary SID of at least one
\* sub-authority
C19_UidIsBasePlusRid ==
    (probe.kind = "sid" /\ probe.step >= 1)
        => LET n == Len(probe.subs) IN
           /\ (probe.form = "text" /\ Len(Split(probe.sid.v, "-")) >= 8)
                => probe.uid = PInt(probe.base + probe.subs[n])
           /\ (probe.form = "binary" /\ n >= 1)
                => probe.uid = PInt(probe.base + probe.subs[n])

\* sid_to_uid("S-1-5-21-1-2-3-1105", 1668600000) has given 1668601105
C19_Witness ==
    /\ probe.kind = "sid"
    /\ probe.step >= 1
    /\ probe.sid = PStr(<<"S", "-", "1", "-", "5", "-", "2", "1", "-", "1", "-", "2", "-",
                          "3", "-", "1", "1", "0", "5">>)
    /\ probe.base = ExampleIdRangeBase
    /\ probe.uid = PInt(1668601105)

\* C20: when sid_to_uid gives a value for a binary SID, sid_to_uid gives the
\* same value for the text sid_to_string makes of that SID
C20_RoundTripKeepsTheUid ==
    (probe.kind = "sid" /\ probe.form = "binary" /\ probe.step = 3
       /\ probe.uid # PNone)
        => probe.back = probe.uid

\* C21: a second call of sid_to_uid on the same SID and base gives what the
\* first gave, and when the first gave a value, the call with the base raised
\* by k gives that value plus k
C21_UidIsLinearInTheBase ==
    probe.kind = "sid"
        => /\ probe.step >= 4 => probe.again = probe.uid
           /\ (probe.step = 5 /\ probe.uid # PNone)
                => probe.shifted = PInt(probe.uid.v + probe.k)

\* the binary SID S-1-5-21-1105 gave 201105 with the default base, twice, and
\* 202105 with the base raised by 1000
C21_Witness ==
    /\ probe.kind = "sid"
    /\ probe.form = "binary"
    /\ probe.subs = <<21, 1105>>
    /\ probe.base = DefaultIdRangeBase
    /\ probe.step = 5
    /\ probe.k = 1000
    /\ probe.uid = PInt(201105)
    /\ probe.again = PInt(201105)
    /\ probe.shifted = PInt(202105)

\* the malformed inputs: a text of fewer than 8 components or with a last
\* component that is no integer, a buffer of fewer than 12 bytes, a buffer whose
\* count byte declares more sub-authorities than it holds
Malformed ==
    \/ probe.form \in {"text", "text_bad"} /\ Len(Split(probe.sid.v, "-")) < 8
    \/ probe.form = "text_bad"
    \/ probe.form \in {"binary", "binary_cut", "binary_over"} /\ Len(probe.sid.v) < 12
    \/ probe.form \in {"binary_cut", "binary_over"}

\* C22: on a malformed SID sid_to_uid returns None, and neither sid_to_uid nor
\* sid_to_string lets an exception out; sid_to_string returns None for a
\* malformed buffer and the text itself for a text
C22_MalformedGivesNone ==
    (probe.kind = "sid" /\ Malformed)
        => /\ probe.step >= 1 => probe.uid = PNone
           /\ probe.step >= 2
                => probe.text = IF probe.sid.t = "str" THEN probe.sid ELSE PNone
           /\ probe.step >= 3 => probe.back = PNone

\* int() has raised on the last component of S-1-5-21-21-21-21-21-x, and
\* struct.unpack on the 14 bytes of a buffer that declares two sub-authorities;
\* both calls returned None
C22_Witness ==
    /\ probe.kind = "sid"
    /\ probe.step >= 2
    /\ probe.uid = PNone
    /\ \/ /\ probe.form = "text_bad"
          /\ Len(Split(probe.sid.v, "-")) >= 8
          /\ sid_to_uid_try(probe.sid, probe.base) = PRaise
       \/ /\ probe.form = "binary_cut"
          /\ Len(probe.sid.v) = 14
          /\ sid_to_uid_try(probe.sid, probe.base) = PRaise
          /\ sid_to_string_try(probe.sid) = PRaise
          /\ probe.text = PNone

\* what the identifier mapper gives for the objectSid of the probed entry
DerivedId ==
    IF probe.entry_sid = PAbsent THEN PNone ELSE sid_to_uid(probe.entry_sid, probe.base)

\* the create parameters p carry the numeric identity k as the claim has it:
\* an explicit source value is passed as it is if anything is passed, any other
\* value passed is the derived one and the entry had none, and nothing is
\* passed when the entry had none and none could be derived
IdentityAsClaimed(p, k) ==
    /\ (probe.explicit # PAbsent /\ k \in DOMAIN p) => p[k] = probe.explicit
    /\ (k \in DOMAIN p /\ p[k] # probe.explicit)
          => probe.explicit = PAbsent /\ p[k] = DerivedId
    /\ (probe.explicit = PAbsent /\ DerivedId = PNone) => k \notin DOMAIN p

\* C23: the gidnumber given to group_add and the uidnumber given to user_add
\* are the explicit value of the source entry when it has one, a derived value
\* only when it has none, and left out when it has none and none can be derived
C23_ExplicitIdentityIsKept ==
    probe.kind = "entry"
        => /\ probe.step >= 1 => IdentityAsClaimed(probe.group_params, "gidnumber")
           /\ probe.step >= 2 => IdentityAsClaimed(probe.user_params, "uidnumber")

\* the positional arguments of user_add
PositionalFields == {"uid", "givenname", "sn", "cn"}

\* C24: each positional argument of a user_add call is the value the mapping
\* gives for the source record when it gives one, and the login name otherwise
C24_PositionalFieldsFallBackToLogin ==
    \A i \in CallsOf(calls, {"user_add"}) :
        LET ipa_user == map_user_attributes(SourceUser(calls[i].key),
                                            config.user_attribute_mapping,
                                            config.default_email_domain)
        IN  \A k \in PositionalFields :
               calls[i].params[k] = IF k \in DOMAIN ipa_user THEN ipa_user[k]
                                    ELSE PStr(calls[i].key)

\* C24 as the code has it: login, given name and surname of a user_add call are
\* the mapped value or else the login name; the common name is the mapped value
\* or else the given name and the surname of the call joined by a blank
C24_CommonNameFallsBackToFullName ==
    \A i \in CallsOf(calls, {"user_add"}) :
        LET ipa_user == map_user_attributes(SourceUser(calls[i].key),
                                            config.user_attribute_mapping,
                                            config.default_email_domain)
            p == calls[i].params
        IN  /\ \A k \in PositionalFields \ {"cn"} :
                 p[k] = IF k \in DOMAIN ipa_user THEN ipa_user[k] ELSE PStr(calls[i].key)
            /\ p["cn"] = IF "cn" \in DOMAIN ipa_user THEN ipa_user["cn"]
                         ELSE PStr(ToStr(p["givenname"]) \o <<" ">> \o ToStr(p["sn"]))

\* alice was created under a mapping without login, surname and common name:
\* her given name is the mapped one, her surname her login, her common name both
C24_Witness ==
    \E i \in CallsOf(calls, {"user_add"}) :
        /\ calls[i].res = "ok"
        /\ calls[i].key = Alice
        /\ config.user_attribute_mapping = NameOnlyMapping
        /\ calls[i].params["uid"] = PStr(Alice)
        /\ calls[i].params["givenname"] = PStr(<<"A">>)
        /\ calls[i].params["sn"] = PStr(Alice)
        /\ calls[i].params["cn"] = PStr(<<"A", " ", "a">>)

\* the calls that create an entry or a membership
CreatingOps == {"user_add", "group_add", "group_add_member"}

\* C25: a run in which the target refused a creating call (the refusal of an
\* entry or membership that already exists is raised like any other, the code
\* has no clause of its own for it) goes on as after a success: it processes
\* every record that is left and returns True
C25_RefusedCreateIsNoOp ==
    \A k \in 1..Len(hist) :
        (\E i \in CallsOf(hist[k].calls, CreatingOps) : hist[k].calls[i].res = "error")
            => hist[k].result = "True" /\ hist[k].left = 0

\* the failed calls of a log
Errors(cs) == Cardinality({i \in 1..Len(cs) : cs[i].res = "error"})

RECURSIVE ErrorsOfRuns(_)
ErrorsOfRuns(h) == IF h = <<>> THEN 0 ELSE Errors(Head(h).calls) + ErrorsOfRuns(Tail(h))

\* every failure injected so far is a failed target call: no connection, no
\* source search and no member lookup has failed
OnlyTargetCallsFailed ==
    faults = ErrorsOfRuns(hist) + (IF pc = "idle" THEN 0 ELSE Errors(calls))

\* the nested groups of the source group of g that resolve, less the group
\* members the target group had, under the names the source gives them
ExpectedGroupAdds(g) ==
    ResolvedNames(MemberList(SourceGroupFor(g).attributes), {}, "group")
        \ StartGroupMembers(g)

\* the members the member calls of the log for the group g name under the keyword kw
Attempted(g, kw) ==
    {calls[c].member : c \in {j \in CallsOf(calls, {"group_add_member"}) :
                                 calls[j].key = g /\ kw \in DOMAIN calls[j].params}}

\* the target names of the source groups the filters let through
GroupsInScope ==
    LET groups == get_ad_groups(cur.adGroups, config.id_range_base) IN
    {MembershipGroupName(groups[i].attributes["sAMAccountName"].v) :
        i \in {j \in 1..Len(groups) :
                 should_sync_group(groups[j].attributes["sAMAccountName"].v, config)}}

\* C26: in a live run where only target calls have failed, the member calls
\* issued for a group the membership phase found name every user and every
\* nested group that was to be added, whether or not one of these calls
\* failed, and a completed run has looked every group in scope up
C26_FailedAddStaysWithItsMember ==
    (~args.dry_run /\ OnlyTargetCallsFailed)
        => /\ \A i \in CallsOf(calls, {"group_show"}) :
                (calls[i].phase = "memberships" /\ calls[i].res = "ok")
                   => LET g == calls[i].key IN
                      /\ Attempted(g, "o_user") = ExpectedUserAdds(g)
                      /\ Attempted(g, "o_group")
                           = {SanitizeGroupName(n) : n \in ExpectedGroupAdds(g)}
           /\ (pc = "idle" /\ result = "True" /\ config.sync_group_memberships)
                => GroupsInScope
                     = {calls[i].key : i \in {j \in CallsOf(calls, {"group_show"}) :
                                                calls[j].phase = "memberships"}}

\* a completed live run in which adding alice to d-o failed, the nested group x
\* was added to d-o after that, and the later group x was looked up
C26_Witness ==
    /\ ~args.dry_run
    /\ pc = "idle"
    /\ result = "True"
    /\ \E c1, c2, c3 \in 1..Len(calls) :
         /\ c1 < c2 /\ c2 < c3
         /\ calls[c1].op = "group_add_member" /\ calls[c1].key = <<"d", "-", "o">>
         /\ calls[c1].member = Alice /\ calls[c1].res = "error"
         /\ calls[c2].op = "group_add_member" /\ calls[c2].key = <<"d", "-", "o">>
         /\ "o_group" \in DOMAIN calls[c2].params /\ calls[c2].res = "ok"
         /\ calls[c3].op = "group_show" /\ calls[c3].key = <<"x">>
         /\ calls[c3].phase = "memberships"

\* the DNs the source group of g lists as members
Refs(g) ==
    LET members == MemberList(SourceGroupFor(g).attributes) IN
    {members[i].v : i \in 1..Len(members)}

\* the directory has an entry with a login name for the DN
Resolvable(dn) == dn \in DOMAIN adObjects /\ HasSam(adObjects[dn])

IsGroupObject(dn) == <<"g", "r", "o", "u", "p">> \in ObjClasses(adObjects[dn])

\* the names of the resolvable references of g that the target group lacked
\* when the run started: users, and nested groups under their source names
Wanted(g) ==
    ({adObjects[dn].attrs["sAMAccountName"].v :
         dn \in {r \in Refs(g) : Resolvable(r) /\ ~IsGroupObject(r)}}
       \ StartUserMembers(g))
    \cup ({adObjects[dn].attrs["sAMAccountName"].v :
             dn \in {r \in Refs(g) : Resolvable(r) /\ IsGroupObject(r)}}
           \ StartGroupMembers(g))

\* the names the run reports as added to g
Decided(g) ==
    {decisions[a].member :
        a \in {i \in 1..Len(decisions) :
                 decisions[i].kind = "AddMember" /\ decisions[i].key = g}}

\* the injected failures that are no failed target call
OtherFailures ==
    faults - (ErrorsOfRuns(hist) + (IF pc = "idle" THEN 0 ELSE Errors(calls)))

\* C27: for a group the membership phase found, every reported addition names
\* a reference that resolves, and the resolvable references left out are at
\* most as many as the lookups that failed: a reference without entry or
\* without login name, or one whose lookup fails, holds back no other
C27_UnresolvedReferenceIsSkipped ==
    \A i \in CallsOf(calls, {"group_show"}) :
        (calls[i].phase = "memberships" /\ calls[i].res = "ok")
           => LET g == calls[i].key IN
              /\ Decided(g) \subseteq Wanted(g)
              /\ Cardinality(Wanted(g) \ Decided(g)) <= OtherFailures

\* a completed run in which the lookup of alice failed: d-o, whose source group
\* lists alice, a DN without entry, an entry without login name and the group
\* (x) in this order, got (x) and not alice
C27_Witness ==
    /\ pc = "idle"
    /\ result = "True"
    /\ OtherFailures = 1
    /\ Refs(<<"d", "-", "o">>) = {DnAlice, DnGhost, DnContact, DnAdmins}
    /\ ~Resolvable(DnGhost)
    /\ ~Resolvable(DnContact)
    /\ Alice \in Wanted(<<"d", "-", "o">>)
    /\ Decided(<<"d", "-", "o">>) = {Admins}

\* the keys of the lookups op the log holds for a phase
LookedUp(op, phase) ==
    {calls[i].key : i \in {j \in CallsOf(calls, {op}) : calls[j].phase = phase}}

\* the log of the run holds a failed call of ensure_id_range and no other
\* failure has been injected into the run
OnlyRangeFailed ==
    /\ OnlyTargetCallsFailed
    /\ Errors(calls) = 1
    /\ \E i \in 1..Len(calls) : calls[i].phase = "range" /\ calls[i].res = "error"

\* C28: a run in which only the lookup or the creation of the identity range
\* failed returns True after its three phases have looked up every user and
\* every group in scope; and no run creates the range after having found it
C28_RangeFailureDoesNotAbort ==
    /\ (pc = "idle" /\ OnlyRangeFailed)
         => /\ result = "True"
            /\ config.sync_users
                 => LookedUp("user_show", "users")
                      = {u \in SourceLogins : ~OutOfScope(u)}
            /\ config.sync_groups => LookedUp("group_show", "groups") = GroupsInScope
            /\ config.sync_group_memberships
                 => LookedUp("group_show", "memberships") = GroupsInScope
    /\ \A i \in CallsOf(calls, {"idrange_show"}) :
         calls[i].res = "ok" => CallsOf(calls, {"idrange_add"}) = {}

\* a completed run whose creation of the range failed and whose three phases
\* issued calls
C28_Witness ==
    /\ pc = "idle"
    /\ result = "True"
    /\ OnlyRangeFailed
    /\ \E i \in CallsOf(calls, {"idrange_add"}) : calls[i].res = "error"
    /\ \A phase \in {"users", "groups", "memberships"} :
         \E i \in 1..Len(calls) : calls[i].phase = phase

\* the counters of the actions applied to the target
ActionCounters ==
    {"users_created", "users_updated", "users_disabled", "users_enabled",
     "groups_created", "groups_updated", "memberships_added"}

\* C30: in a dry-run none of the created, updated, enabled, disabled and
\* memberships-added counters changes from its value at the start of the run
C30_DryRunChangesNoCounter ==
    args.dry_run => \A k \in ActionCounters : stats[k] = 0

\* C29: when sync() is called twice on the same engine, the counters the
\* second run reports count the second run's actions only: a live second run
\* reports as many created users as its own log holds completed creations and
\* as many added memberships as its own log holds successful member calls,
\* when it ran to its summary
C29_SecondRunCountsItsOwnActions ==
    (reused /\ runs = 2 /\ pc = "idle" /\ result = "True" /\ ~args.dry_run)
        => /\ stats.users_created = Cardinality(CompletedCreations)
           /\ stats.memberships_added
                = Cardinality({i \in CallsOf(calls, {"group_add_member"}) :
                                  calls[i].res = "ok"})

\* a source value that holds nothing: None, "", [], 0, or a list whose first
\* element holds nothing
FirstValue(x) == IF x.t = "list" /\ x.v # <<>> THEN x.v[1] ELSE x

Empty(x) == FirstValue(x) \in {PNone, PStr(<<>>), PList(<<>>), PInt(0)}

\* the pairs of the mapping table that name the target attribute k and whose
\* source attribute the entry holds with a value
Contributing(k) ==
    {i \in 1..Len(probe.mapping) :
        /\ probe.mapping[i][2] = k
        /\ probe.mapping[i][1] \in DOMAIN probe.src
        /\ ~Empty(probe.src[probe.mapping[i][1]])}

LastOf(S) == CHOOSE i \in S : \A j \in S : j <= i

TargetAttributes == {probe.mapping[i][2] : i \in 1..Len(probe.mapping)}

ConstructedMail ==
    PStr(ToStr(probe.mapped["uid"]) \o <<"@">> \o probe.domain.v)

\* C32: the result holds the constructed mail uid@domain exactly when no pair
\* of the table contributed a mail, a default domain is configured and the
\* result holds a uid; a mail a pair contributed is the mail of the result;
\* and otherwise the result holds no mail
C32_MailConstructedOnlyWhenMissing ==
    (probe.kind = "map" /\ probe.step = 1)
        => LET constructs == /\ Contributing("mail") = {}
                             /\ probe.domain \notin {PNone, PStr(<<>>)}
                             /\ "uid" \in DOMAIN probe.mapped
           IN  /\ constructs
                    => /\ "mail" \in DOMAIN probe.mapped
                       /\ probe.mapped["mail"] = ConstructedMail
               /\ Contributing("mail") # {}
                    => probe.mapped["mail"]
                         = FirstValue(probe.src[probe.mapping[LastOf(Contributing("mail"))][1]])
               /\ (~constructs /\ Contributing("mail") = {})
                    => "mail" \notin DOMAIN probe.mapped

\* carol without a mail was mapped with the domain d: her mail is c@d
C32_Witness ==
    /\ probe.kind = "map"
    /\ probe.step = 1
    /\ probe.domain = PStr(<<"d">>)
    /\ "mail" \notin DOMAIN probe.src
    /\ "uid" \in DOMAIN probe.mapped
    /\ probe.mapped["uid"] = PStr(Carol)
    /\ probe.mapped["mail"] = PStr(Carol \o <<"@", "d">>)

\* C33: after a live run of the user phase in which no call failed, every
\* source user the filters let through exists in the target, locked exactly
\* when the source account is disabled, whatever the target held before and
\* whether or not the run was forced
C33_LiveRunConverges ==
    (/\ pc = "idle"
     /\ runs >= 1
     /\ ~args.dry_run
     /\ cur.connect = "ok"
     /\ cur.clean
     /\ config.sync_users)
        => \A u \in SourceLogins :
             ~OutOfScope(u)
                => /\ u \in DOMAIN ipaUsers
                   /\ ipaUsers[u].nsaccountlock = (u \in DisabledLogins)

\* a live run without failure started with alice locked in the target and
\* bob missing from it, alice being enabled in the source: it ended with alice
\* unlocked and bob created
C33_Witness ==
    /\ pc = "idle"
    /\ runs = 1
    /\ ~args.dry_run
    /\ cur.connect = "ok"
    /\ cur.clean
    /\ config.sync_users
    /\ ~OutOfScope(Alice)
    /\ Alice \notin DisabledLogins
    /\ Alice \in DOMAIN cur.ipaUsers
    /\ cur.ipaUsers[Alice].nsaccountlock
    /\ ~ipaUsers[Alice].nsaccountlock
    /\ Bob \in DOMAIN ipaUsers

\* C34: in a live run users_created has grown by the number of user_add calls
\* of the run that succeeded, a user_add whose user_disable failed included
C34_CreatedCountsSucceededCreates ==
    ~args.dry_run
        => stats.users_created
             = cur.stats.users_created
                 + Cardinality({i \in CallsOf(calls, {"user_add"}) : calls[i].res = "ok"})

\* C35: no add-member call of a run passes as the member a user the user
\* filters leave out or a source group the group filters leave out
C35_FilteredEntityIsNeverAMember ==
    \A i \in CallsOf(calls, {"group_add_member"}) :
        /\ "o_user" \in DOMAIN calls[i].params => ~OutOfScope(calls[i].member)
        /\ "o_group" \in DOMAIN calls[i].params
             => \A g \in SourceGroupNames :
                  SanitizeGroupName(g) = calls[i].member => should_sync_group(g, config)

\* C36: when sync() has returned or raised, the source connection a run bound
\* is no longer bound
C36_SourceConnectionIsReleased ==
    pc = "idle" => ad_conn # "bound"

\* the source records the user loop of the run has taken up: each one is
\* either reported as skipped or looked up in the target
UserRecordsProcessed ==
    Cardinality(UserSkips)
      + Cardinality({i \in CallsOf(calls, {"user_show"}) : calls[i].phase = "users"})

\* what the run has added to users_created, users_updated and users_skipped
UserCountersSum ==
    (stats.users_created - cur.stats.users_created)
      + (stats.users_updated - cur.stats.users_updated)
      + (stats.users_skipped - cur.stats.users_skipped)

\* a call of the user phase has failed
UserCallFailed ==
    \E i \in 1..Len(calls) : calls[i].phase = "users" /\ calls[i].res = "error"

\* C37: the records the user loop has taken up are those the loop has removed
\* from its list; users_created + users_updated + users_skipped has grown by
\* one for each record that was skipped or whose calls all succeeded and by
\* nothing for the others, so it is at most the number of records taken up,
\* and equal to it exactly when no call of the user phase failed
C37_OneCounterPerRecord ==
    /\ pc = "users_loop"
         => UserRecordsProcessed
              = Len(get_ad_users(adUsers, config.id_range_base)) - Len(todo)
    /\ UserCountersSum
         = Cardinality(UserSkips) + Cardinality(CleanSteps(calls, "users", "user_show"))
    /\ UserCountersSum <= UserRecordsProcessed
    /\ UserCountersSum = UserRecordsProcessed <=> ~UserCallFailed

\* a run took up alice and bob; one call for them failed and one counter grew
C37_Witness ==
    /\ UserRecordsProcessed = 2
    /\ UserCallFailed
    /\ UserCountersSum = 1
    /\ stats.users_skipped = cur.stats.users_skipped

\* C38: two source groups with different names, both let through by the group
\* filters, get different target keys: the key under which the group phase
\* creates the one is not the key under which the membership phase adds the
\* members of the other
C38_DistinctGroupsGetDistinctKeys ==
    (/\ probe.kind = "names"
     /\ probe.step = 1
     /\ probe.name # probe.other
     /\ should_sync_group(probe.name, BaseConfig)
     /\ should_sync_group(probe.other, BaseConfig))
        => probe.key # probe.other_key

\* the counters a phase raises
CountersOf(phase) ==
    CASE phase = "users" -> {"users_created", "users_updated", "users_skipped",
                             "users_disabled", "users_enabled"}
      [] phase = "groups" -> {"groups_created", "groups_updated"}
      [] OTHER -> {"memberships_added"}

\* the phase is switched on in the configuration
Enabled(phase) ==
    CASE phase = "users" -> config.sync_users
      [] phase = "groups" -> config.sync_groups
      [] OTHER -> config.sync_group_memberships

\* the keys the phase looks up when it handles every source record in scope
KeysInScope(phase) ==
    IF phase = "users" THEN {u \in SourceLogins : ~OutOfScope(u)} ELSE GroupsInScope

\* C39: in a completed run that connected and in which the listing of the
\* source failed for some phase, that phase issued no target call and raised
\* none of its counters; and when nothing else failed in the run, the run returned True
\* and every other phase that is switched on looked up every record in scope
C39_FailedListingIsAnEmptySnapshot ==
    (pc = "idle" /\ runs >= 1 /\ cur.connect = "ok" /\ cur.listing # {})
        => /\ \A phase \in cur.listing :
                /\ \A i \in 1..Len(calls) : calls[i].phase # phase
                /\ \A k \in CountersOf(phase) : stats[k] = cur.stats[k]
           /\ faults - cur.faults = Cardinality(cur.listing)
                => /\ result = "True"
                   /\ \A phase \in {"users", "groups", "memberships"} \ cur.listing :
                        Enabled(phase)
                           => LookedUp(IF phase = "users" THEN "user_show"
                                                          ELSE "group_show", phase)
                                = KeysInScope(phase)

\* a run in which only the listing of the users failed: no call of the user
\* phase, and calls of the group and the membership phase
C39_Witness ==
    /\ pc = "idle"
    /\ result = "True"
    /\ cur.listing = {"users"}
    /\ faults - cur.faults = 1
    /\ \A i \in 1..Len(calls) : calls[i].phase # "users"
    /\ \A phase \in {"groups", "memberships"} :
         \E i \in 1..Len(calls) : calls[i].phase = phase

\* the lookup of the Azure user of the probe was issued and returned res
AzureLookup(res) ==
    \E i \in 1..Len(probe.out.calls) :
        probe.out.calls[i].op = "user_show" /\ probe.out.calls[i].res = res

\* C40: sync_user_to_freeipa issues nothing but the lookup and changes no
\* counter for a user the lookup finds, and issues no user_add after a lookup
\* that raised another error than the target's NotFound
C40_AzureExistingUserUntouched ==
    (probe.kind = "azure" /\ probe.step = 1)
        => /\ AzureLookup("ok")
                => /\ \A i \in 1..Len(probe.out.calls) : probe.out.calls[i].op = "user_show"
                   /\ probe.out.stats = AzureZeroStats
           /\ (AzureLookup("error") /\ probe.lookup.exc.type # "NotFound")
                => \A i \in 1..Len(probe.out.calls) : probe.out.calls[i].op # "user_add"
====
